---- MODULE Spec2Model ----
(***************************************************************************)
(* Scenario projection engine of construction_materials_sim: the carbon    *)
(* pricing, steel, cement and market models, and run_simulation.           *)
(*                                                                         *)
(* Numbers.  The code computes in binary floating point.  Here a number is *)
(* a decimal fixed-point value: the integer n stands for n / Scale.  Sums  *)
(* and differences are exact; every product and quotient is rounded down   *)
(* to the grid, as the code's arithmetic rounds every operation to its own *)
(* grid.  Three values above every finite one stand for NaN, +inf and -inf *)
(* and follow the IEEE rules the code's numpy scalars follow.              *)
(*                                                                         *)
(* Tables.  A pandas DataFrame is a record [index, columns, data]: the     *)
(* row labels in order, the column names in order, and for each column     *)
(* name the sequence of its values, one per row.                           *)
(*                                                                         *)
(* Outcomes.  A call either returns a value, Ok(v), or raises,             *)
(* Raise(error, key).                                                      *)
(***************************************************************************)
EXTENDS Integers, Sequences, FiniteSets, TLC

VARIABLES start_year, end_year, carbon_model, steel_model, cement_model,
          market_model, call, prev_out, runs, heap

vars == <<start_year, end_year, carbon_model, steel_model, cement_model,
          market_model, call, prev_out, runs, heap>>

(***************************************************************************)
(* Bounds of the model.                                                    *)
(***************************************************************************)
\* the longest year range a model is constructed with (rows of a table)
MaxYears == 4

\* the longest range of years a carbon model is built for when its market_evolution
\* table is computed: long enough for every cap and the floor to be reached
MaxHorizon == 36

(***************************************************************************)
(* Fixed-point numbers.                                                    *)
(***************************************************************************)
Scale == 10 * 1000

\* n / d as a number, for a decimal literal of the code: Dec(8, 100) is 0.08
Dec(n, d) == (n * Scale) \div d

Num(n) == n * Scale

One == Num(1)

NaN == 2 ^ 30

PosInf == NaN + 1

NegInf == NaN + 2

IsFinite(a) == a < NaN

Abs(a) == IF a < 0 THEN 0 - a ELSE a

Sign(a) == IF a > 0 THEN 1 ELSE IF a < 0 THEN 0 - 1 ELSE 0

SignOf(a) == IF a = PosInf THEN 1 ELSE IF a = NegInf THEN 0 - 1 ELSE Sign(a)

InfOfSign(s) == IF s > 0 THEN PosInf ELSE NegInf

Neg(a) ==
    IF a = NaN THEN NaN
    ELSE IF a = PosInf THEN NegInf
    ELSE IF a = NegInf THEN PosInf
    ELSE 0 - a

Add(a, b) ==
    IF a = NaN \/ b = NaN THEN NaN
    ELSE IF ~IsFinite(a) /\ ~IsFinite(b) THEN (IF a = b THEN a ELSE NaN)
    ELSE IF ~IsFinite(a) THEN a
    ELSE IF ~IsFinite(b) THEN b
    ELSE a + b

Sub(a, b) == Add(a, Neg(b))

\* floor(a * b / Scale) without leaving the integers of the checker: both factors
\* are split into their whole part and their part below one
MulFinite(a, b) ==
    LET ah == a \div Scale
        al == a % Scale
        bh == b \div Scale
        bl == b % Scale
    IN  ah * bh * Scale + ah * bl + al * bh + (al * bl) \div Scale

Mul(a, b) ==
    IF a = NaN \/ b = NaN THEN NaN
    ELSE IF ~IsFinite(a) \/ ~IsFinite(b)
         THEN (IF a = 0 \/ b = 0 THEN NaN ELSE InfOfSign(SignOf(a) * SignOf(b)))
    ELSE MulFinite(a, b)

\* the digits of r / b after the point, n of them, r < b, b > 0: long division
RECURSIVE FracDigits(_, _, _)
FracDigits(r, b, n) ==
    IF n = 0 THEN 0
    ELSE LET d == (r * 10) \div b
         IN  d * (10 ^ (n - 1)) + FracDigits((r * 10) % b, b, n - 1)

\* floor(a * Scale / b) for b > 0
DivPos(a, b) == (a \div b) * Scale + FracDigits(a % b, b, 4)

DivFinite(a, b) == IF b > 0 THEN DivPos(a, b) ELSE DivPos(0 - a, 0 - b)

Div(a, b) ==
    IF a = NaN \/ b = NaN THEN NaN
    ELSE IF ~IsFinite(a) /\ ~IsFinite(b) THEN NaN
    ELSE IF ~IsFinite(a) THEN InfOfSign(SignOf(a) * (IF b < 0 THEN 0 - 1 ELSE 1))
    ELSE IF ~IsFinite(b) THEN 0
    ELSE IF b = 0 THEN (IF a = 0 THEN NaN ELSE InfOfSign(Sign(a)))
    ELSE DivFinite(a, b)

\* b ** k for an integer k >= 0 (numpy: 1.0 for k = 0, whatever b is)
RECURSIVE Pow(_, _)
Pow(b, k) == IF k = 0 THEN One ELSE Mul(Pow(b, k - 1), b)

\* a < b as the code's floats compare: every comparison with NaN is false
Less(a, b) ==
    IF a = NaN \/ b = NaN THEN FALSE
    ELSE IF a = b THEN FALSE
    ELSE IF a = NegInf \/ b = PosInf THEN TRUE
    ELSE IF a = PosInf \/ b = NegInf THEN FALSE
    ELSE a < b

\* Python's min(a, b): b when b < a, otherwise a
PyMin(a, b) == IF Less(b, a) THEN b ELSE a

\* numpy's minimum and maximum: NaN when either is NaN
NpMinimum(a, b) == IF a = NaN \/ b = NaN THEN NaN ELSE IF Less(b, a) THEN b ELSE a

NpMaximum(a, b) == IF a = NaN \/ b = NaN THEN NaN ELSE IF Less(a, b) THEN b ELSE a

(***************************************************************************)
(* Sequences, outcomes and tables.                                         *)
(***************************************************************************)
Range(s) == {s[i] : i \in DOMAIN s}

Ok(v) == [status |-> "ok", value |-> v]

Raise(e, k) == [status |-> "raise", error |-> e, key |-> k]

IsOk(r) == r.status = "ok"

\* np.arange(start, end + 1)
Arange(start, end) == [i \in 1..(end - start + 1) |-> start + i - 1]

\* pd.DataFrame(index=years)
DataFrame(idx) == [index |-> idx, columns |-> <<>>, data |-> <<>>]

HasCol(df, c) == c \in Range(df.columns)

\* df[c] = values, a new column last or an existing column replaced
SetCol(df, c, values) ==
    [index   |-> df.index,
     columns |-> IF HasCol(df, c) THEN df.columns ELSE Append(df.columns, c),
     data    |-> [k \in Range(df.columns) \cup {c} |->
                     IF k = c THEN values ELSE df.data[k]]]

\* df[c] = scalar
SetColScalar(df, c, v) == SetCol(df, c, [i \in DOMAIN df.index |-> v])

\* df[c], which raises KeyError when the table has no such column
GetCol(df, c) == IF HasCol(df, c) THEN Ok(df.data[c]) ELSE Raise("KeyError", c)

\* the position of a row label
Pos(df, label) == CHOOSE i \in DOMAIN df.index : df.index[i] = label

\* df.loc[label, c]
Loc(df, label, c) == df.data[c][Pos(df, label)]

\* df.loc[label, c] = v
SetLoc(df, label, c, v) ==
    [df EXCEPT !.data[c][Pos(df, label)] = v]

\* elementwise arithmetic of numpy arrays and of an array with a scalar
VAdd(u, v) == [i \in DOMAIN u |-> Add(u[i], v[i])]

VSub(u, v) == [i \in DOMAIN u |-> Sub(u[i], v[i])]

VMul(u, v) == [i \in DOMAIN u |-> Mul(u[i], v[i])]

SMul(a, v) == [i \in DOMAIN v |-> Mul(a, v[i])]

SDiv(v, a) == [i \in DOMAIN v |-> Div(v[i], a)]

SRSub(a, v) == [i \in DOMAIN v |-> Sub(a, v[i])]

\* base * (1 + growth) ** (years - start_year)
Compound(base, growth, years, start) ==
    [i \in DOMAIN years |-> Mul(base, Pow(Add(One, growth), years[i] - start))]

(***************************************************************************)
(* carbon_pricing.py                                                       *)
(***************************************************************************)
Regions == <<"EU", "US", "Asia", "Global South">>

CbamRegions == <<"Asia", "Global South">>

\* CarbonPricingModel.__init__ and _init_base_data
CarbonPricingModel(start, end) ==
    [start_year |-> start,
     end_year   |-> end,
     years      |-> Arange(start, end),
     base_prices |->
        [r \in Range(Regions) |->
            CASE r = "EU" -> Num(80) [] r = "US" -> Num(50)
              [] r = "Asia" -> Num(30) [] OTHER -> Num(15)],
     base_trade_flows |->
        [f \in {"EU_imports", "US_imports", "Asia_exports", "Global_South_exports"} |->
            CASE f = "EU_imports" -> Num(45) [] f = "US_imports" -> Num(35)
              [] f = "Asia_exports" -> Num(60) [] OTHER -> Num(25)],
     carbon_intensity |->
        [r \in Range(Regions) |->
            CASE r = "EU" -> Dec(18, 10) [] r = "US" -> Dec(20, 10)
              [] r = "Asia" -> Dec(23, 10) [] OTHER -> Dec(25, 10)],
     regional_markets |->
        [r \in Range(Regions) |->
            CASE r = "EU" ->
                   [regulatory_pressure |-> Dec(9, 10), market_maturity |-> Dec(8, 10),
                    price_sensitivity |-> Dec(7, 10)]
              [] r = "US" ->
                   [regulatory_pressure |-> Dec(7, 10), market_maturity |-> Dec(6, 10),
                    price_sensitivity |-> Dec(8, 10)]
              [] r = "Asia" ->
                   [regulatory_pressure |-> Dec(5, 10), market_maturity |-> Dec(4, 10),
                    price_sensitivity |-> Dec(9, 10)]
              [] OTHER ->
                   [regulatory_pressure |-> Dec(3, 10), market_maturity |-> Dec(2, 10),
                    price_sensitivity |-> Dec(95, 100)]]]

\* a variant that compounds from the year before the first
Carbon_calculate_eu_prices_from_year_before(self, scenario) ==
    [i \in DOMAIN self.years |->
        Mul(scenario.eu_ets_base,
            Pow(Add(One, scenario.eu_ets_growth_rate),
                self.years[i] - self.start_year + 1))]

Carbon_calculate_eu_prices(self, scenario) ==
    Compound(scenario.eu_ets_base, scenario.eu_ets_growth_rate,
             self.years, self.start_year)

Carbon_calculate_us_prices(self, scenario) ==
    Compound(scenario.us_carbon_price_start, scenario.us_carbon_price_growth,
             self.years, self.start_year)

Carbon_calculate_asian_prices(self, scenario) ==
    Compound(self.base_prices["Asia"], scenario.asian_market_adoption_rate,
             self.years, self.start_year)

Carbon_calculate_global_south_prices(self, scenario) ==
    Compound(self.base_prices["Global South"], scenario.global_south_adoption_rate,
             self.years, self.start_year)

\* a variant that starts the charge the year after the implementation year
CbamCharge_after_year(self, scenario, eu_prices, region) ==
    LET carbon_diff == Sub(self.carbon_intensity[region], self.carbon_intensity["EU"])
    IN  [i \in DOMAIN self.years |->
            IF self.years[i] > scenario.cbam_implementation_year
            THEN Mul(carbon_diff, eu_prices[i]) ELSE 0]

\* np.where(self.years >= cbam_implementation_year, carbon_diff * eu_prices, 0)
CbamCharge(self, scenario, eu_prices, region) ==
    LET carbon_diff == Sub(self.carbon_intensity[region], self.carbon_intensity["EU"])
    IN  [i \in DOMAIN self.years |->
            IF self.years[i] >= scenario.cbam_implementation_year
            THEN Mul(carbon_diff, eu_prices[i]) ELSE 0]

\* the loop over ['Asia', 'Global South'], from its k-th region on
RECURSIVE CbamLoop(_, _, _, _, _)
CbamLoop(self, scenario, eu_prices, impact, k) ==
    IF k > Len(CbamRegions) THEN impact
    ELSE CbamLoop(self, scenario, eu_prices,
                  SetCol(impact, CbamRegions[k] \o "_cbam_charge",
                         CbamCharge(self, scenario, eu_prices, CbamRegions[k])),
                  k + 1)

Carbon_calculate_cbam_impact(self, scenario, eu_prices) ==
    CbamLoop(self, scenario, eu_prices, DataFrame(self.years), 1)

\* base * (1 - coeff * diff / 100)
TradeShift(base, coeff, diff) ==
    SMul(base, SRSub(One, SDiv(SMul(coeff, diff), Num(100))))

Carbon_calculate_trade_shifts(self, eu_prices, us_prices, asian_prices, global_south_prices, cbam_impact) ==
    LET eu_us_diff == VSub(eu_prices, us_prices)
        eu_asia_diff == VSub(eu_prices, asian_prices)
        eu_global_south_diff == VSub(eu_prices, global_south_prices)
        t1 == SetCol(DataFrame(self.years), "eu_us_shift",
                     TradeShift(self.base_trade_flows["US_imports"], Dec(1, 10), eu_us_diff))
        t2 == SetCol(t1, "eu_asia_shift",
                     TradeShift(self.base_trade_flows["Asia_exports"], Dec(15, 100), eu_asia_diff))
        t3 == SetCol(t2, "eu_global_south_shift",
                     TradeShift(self.base_trade_flows["Global_South_exports"], Dec(15, 100),
                                eu_global_south_diff))
        asia == GetCol(cbam_impact, "Asia_cbam_charge")
        south == GetCol(cbam_impact, "Global_South_cbam_charge")
    IN  IF ~IsOk(asia) THEN asia
        ELSE IF ~IsOk(south) THEN south
        ELSE Ok(SetCol(SetCol(t3, "asia_cbam_impact", SMul(Neg(Dec(2, 10)), asia.value)),
                       "global_south_cbam_impact", SMul(Neg(Dec(2, 10)), south.value)))

\* a variant without the floor of the price sensitivity
EvolveRegion_unfloored(self, df, region) ==
    LET ch == self.regional_markets[region]
        k(i) == self.years[i] - self.start_year
        maturity == [i \in DOMAIN self.years |->
            NpMinimum(Mul(ch.market_maturity, Pow(Add(One, Dec(2, 100)), k(i))), One)]
        pressure == [i \in DOMAIN self.years |->
            NpMinimum(Mul(ch.regulatory_pressure, Pow(Add(One, Dec(3, 100)), k(i))), One)]
        sensitivity == [i \in DOMAIN self.years |->
            Mul(ch.price_sensitivity, Pow(Sub(One, Dec(1, 100)), k(i)))]
    IN  SetCol(SetCol(SetCol(df, region \o "_maturity", maturity),
                      region \o "_pressure", pressure),
               region \o "_sensitivity", sensitivity)

\* one region's three columns of market_evolution
EvolveRegion(self, df, region) ==
    LET ch == self.regional_markets[region]
        k(i) == self.years[i] - self.start_year
        maturity == [i \in DOMAIN self.years |->
            NpMinimum(Mul(ch.market_maturity, Pow(Add(One, Dec(2, 100)), k(i))), One)]
        pressure == [i \in DOMAIN self.years |->
            NpMinimum(Mul(ch.regulatory_pressure, Pow(Add(One, Dec(3, 100)), k(i))), One)]
        sensitivity == [i \in DOMAIN self.years |->
            NpMaximum(Mul(ch.price_sensitivity, Pow(Sub(One, Dec(1, 100)), k(i))), Dec(5, 10))]
    IN  SetCol(SetCol(SetCol(df, region \o "_maturity", maturity),
                      region \o "_pressure", pressure),
               region \o "_sensitivity", sensitivity)

RECURSIVE EvolveLoop(_, _, _)
EvolveLoop(self, df, k) ==
    IF k > Len(Regions) THEN df
    ELSE EvolveLoop(self, EvolveRegion(self, df, Regions[k]), k + 1)

Carbon_calculate_market_evolution(self, eu_prices, us_prices, asian_prices, global_south_prices) ==
    EvolveLoop(self, DataFrame(self.years), 1)

\* pd.DataFrame({'year': ..., 'eu_ets': ..., ...}): no index given, so rows 0..n-1
CarbonPricesFrame(self, eu_prices, us_prices, asian_prices, global_south_prices) ==
    [index   |-> [i \in DOMAIN self.years |-> i - 1],
     columns |-> <<"year", "eu_ets", "us_price", "asian_price", "global_south_price">>,
     data    |-> [c \in {"year", "eu_ets", "us_price", "asian_price", "global_south_price"} |->
                    CASE c = "year" -> self.years
                      [] c = "eu_ets" -> eu_prices
                      [] c = "us_price" -> us_prices
                      [] c = "asian_price" -> asian_prices
                      [] OTHER -> global_south_prices]]

Carbon_simulate_scenario(self, scenario) ==
    LET eu_prices == Carbon_calculate_eu_prices(self, scenario)
        us_prices == Carbon_calculate_us_prices(self, scenario)
        asian_prices == Carbon_calculate_asian_prices(self, scenario)
        global_south_prices == Carbon_calculate_global_south_prices(self, scenario)
        cbam_impact == Carbon_calculate_cbam_impact(self, scenario, eu_prices)
        trade_shifts == Carbon_calculate_trade_shifts(self, eu_prices, us_prices,
                            asian_prices, global_south_prices, cbam_impact)
        market_evolution == Carbon_calculate_market_evolution(self, eu_prices, us_prices,
                                asian_prices, global_south_prices)
    IN  IF ~IsOk(trade_shifts) THEN [self |-> self, out |-> trade_shifts]
        ELSE [self |-> self,
              out  |-> Ok([carbon_prices |-> CarbonPricesFrame(self, eu_prices, us_prices,
                                                asian_prices, global_south_prices),
                           trade_flows |-> trade_shifts.value,
                           cbam_impact |-> cbam_impact,
                           market_evolution |-> market_evolution])]

(***************************************************************************)
(* steel.py and cement.py                                                  *)
(***************************************************************************)
SteelTechNames == <<"BF-BOF", "EAF", "H2-DRI">>

CementTechNames == <<"Conventional", "Efficient", "Alternative">>

\* SteelIndustryModel.__init__, _init_technologies and _init_market_data
SteelIndustryModel(start, end) ==
    [start_year |-> start,
     end_year   |-> end,
     years      |-> Arange(start, end),
     tech_names |-> SteelTechNames,
     technologies |->
        [t \in Range(SteelTechNames) |->
            CASE t = "BF-BOF" ->
                   [capex_base |-> Num(800), opex_base |-> Num(400),
                    carbon_intensity |-> Dec(18, 10), learning_rate |-> Dec(1, 100)]
              [] t = "EAF" ->
                   [capex_base |-> Num(600), opex_base |-> Num(300),
                    carbon_intensity |-> Dec(3, 10), learning_rate |-> Dec(2, 100)]
              [] OTHER ->
                   [capex_base |-> Num(1200), opex_base |-> Num(500),
                    carbon_intensity |-> Dec(1, 10), learning_rate |-> Dec(5, 100)]],
     base_production |-> Num(1900),
     initial_mix |->
        [t \in Range(SteelTechNames) |->
            CASE t = "BF-BOF" -> Dec(70, 100) [] t = "EAF" -> Dec(25, 100)
              [] OTHER -> Dec(5, 100)],
     base_scrap |-> Num(600)]

\* CementIndustryModel.__init__, _init_technologies and _init_market_data
CementIndustryModel(start, end) ==
    [start_year |-> start,
     end_year   |-> end,
     years      |-> Arange(start, end),
     tech_names |-> CementTechNames,
     technologies |->
        [t \in Range(CementTechNames) |->
            CASE t = "Conventional" ->
                   [capex_base |-> Num(150), opex_base |-> Num(40),
                    carbon_intensity |-> Dec(85, 100), learning_rate |-> Dec(1, 100),
                    alternative_fuel_share |-> Dec(10, 100)]
              [] t = "Efficient" ->
                   [capex_base |-> Num(200), opex_base |-> Num(35),
                    carbon_intensity |-> Dec(75, 100), learning_rate |-> Dec(2, 100),
                    alternative_fuel_share |-> Dec(25, 100)]
              [] OTHER ->
                   [capex_base |-> Num(250), opex_base |-> Num(45),
                    carbon_intensity |-> Dec(40, 100), learning_rate |-> Dec(5, 100),
                    alternative_fuel_share |-> Dec(40, 100)]],
     base_production |-> Num(4200),
     initial_mix |->
        [t \in Range(CementTechNames) |->
            CASE t = "Conventional" -> Dec(60, 100) [] t = "Efficient" -> Dec(35, 100)
              [] OTHER -> Dec(5, 100)]]

\* base * (1 - learning_rate) ** (years - start_year)
Learn(base, learning_rate, years, start) ==
    [i \in DOMAIN years |-> Mul(base, Pow(Sub(One, learning_rate), years[i] - start))]

\* a variant that charges the hydrogen route for electricity
SteelEnergyCost_electric(tech_name, hydrogen_costs, electricity_costs) ==
    IF tech_name = "EAF" \/ tech_name = "H2-DRI" THEN SMul(Dec(5, 10), electricity_costs)
    ELSE SMul(Dec(2, 10), electricity_costs)

\* the energy cost of one steel technology
SteelEnergyCost(tech_name, hydrogen_costs, electricity_costs) ==
    IF tech_name = "H2-DRI" THEN SMul(Num(50), hydrogen_costs)
    ELSE IF tech_name = "EAF" THEN SMul(Dec(5, 10), electricity_costs)
    ELSE SMul(Dec(2, 10), electricity_costs)

\* the loop over the technologies, from the k-th on
RECURSIVE SteelCostLoop(_, _, _, _, _, _)
SteelCostLoop(self, costs, carbon_prices, hydrogen_costs, electricity_costs, k) ==
    IF k > Len(self.tech_names) THEN costs
    ELSE LET tech_name == self.tech_names[k]
             tech == self.technologies[tech_name]
             base_capex == Learn(tech.capex_base, tech.learning_rate, self.years, self.start_year)
             base_opex == Learn(tech.opex_base, tech.learning_rate, self.years, self.start_year)
             carbon_cost == SMul(tech.carbon_intensity, carbon_prices)
             energy_cost == SteelEnergyCost(tech_name, hydrogen_costs, electricity_costs)
         IN  SteelCostLoop(self,
                 SetCol(costs, tech_name \o "_total_cost",
                        VAdd(VAdd(VAdd(base_capex, base_opex), carbon_cost), energy_cost)),
                 carbon_prices, hydrogen_costs, electricity_costs, k + 1)

Steel_calculate_cost_evolution(self, scenario) ==
    SteelCostLoop(self, DataFrame(self.years),
        Compound(scenario.carbon_price_start, scenario.carbon_price_growth,
                 self.years, self.start_year),
        Compound(scenario.hydrogen_cost_start, scenario.hydrogen_cost_growth,
                 self.years, self.start_year),
        Compound(scenario.electricity_cost_start, scenario.electricity_cost_growth,
                 self.years, self.start_year),
        1)

\* (1 - alternative_fuel_share) * 0.1 * electricity + alternative_fuel_share * 0.2 * alt_fuel
CementEnergyCost(tech, electricity_costs, alt_fuel_costs) ==
    VAdd(SMul(Mul(Sub(One, tech.alternative_fuel_share), Dec(1, 10)), electricity_costs),
         SMul(Mul(tech.alternative_fuel_share, Dec(2, 10)), alt_fuel_costs))

RECURSIVE CementCostLoop(_, _, _, _, _, _)
CementCostLoop(self, costs, carbon_prices, electricity_costs, alt_fuel_costs, k) ==
    IF k > Len(self.tech_names) THEN costs
    ELSE LET tech_name == self.tech_names[k]
             tech == self.technologies[tech_name]
             base_capex == Learn(tech.capex_base, tech.learning_rate, self.years, self.start_year)
             base_opex == Learn(tech.opex_base, tech.learning_rate, self.years, self.start_year)
             carbon_cost == SMul(tech.carbon_intensity, carbon_prices)
             energy_cost == CementEnergyCost(tech, electricity_costs, alt_fuel_costs)
         IN  CementCostLoop(self,
                 SetCol(costs, tech_name \o "_total_cost",
                        VAdd(VAdd(VAdd(base_capex, base_opex), carbon_cost), energy_cost)),
                 carbon_prices, electricity_costs, alt_fuel_costs, k + 1)

Cement_calculate_cost_evolution(self, scenario) ==
    CementCostLoop(self, DataFrame(self.years),
        Compound(scenario.carbon_price_start, scenario.carbon_price_growth,
                 self.years, self.start_year),
        Compound(scenario.electricity_cost_start, scenario.electricity_cost_growth,
                 self.years, self.start_year),
        Compound(scenario.alternative_fuel_cost_start, scenario.alternative_fuel_cost_growth,
                 self.years, self.start_year),
        1)

\* adoption[tech_name] = self.initial_mix[tech_name], for every technology
RECURSIVE InitialMixLoop(_, _, _)
InitialMixLoop(self, adoption, k) ==
    IF k > Len(self.tech_names) THEN adoption
    ELSE InitialMixLoop(self,
             SetColScalar(adoption, self.tech_names[k], self.initial_mix[self.tech_names[k]]),
             k + 1)

\* sum(cost_diffs.values()) for one year
RECURSIVE TotalCost(_, _, _, _)
TotalCost(self, costs, year, k) ==
    IF k = 0 THEN 0
    ELSE Add(TotalCost(self, costs, year, k - 1),
             Loc(costs, year, self.tech_names[k] \o "_total_cost"))

\* a variant that pulls toward the cost share itself
AdoptionStep_toward_cost_share(prev_share, cost, total_cost, adoption_rate) ==
    LET cost_share == Div(cost, total_cost)
    IN  Add(Mul(prev_share, Sub(One, adoption_rate)),
            Mul(cost_share, adoption_rate))

\* a variant that keeps the whole previous share
AdoptionStep_no_decay(prev_share, cost, total_cost, adoption_rate) ==
    LET cost_share == Div(cost, total_cost)
    IN  Add(prev_share, Mul(Sub(One, cost_share), adoption_rate))

\* a variant that pulls twice as hard toward 1 - cost_share
AdoptionStep_double_pull(prev_share, cost, total_cost, adoption_rate) ==
    LET cost_share == Div(cost, total_cost)
    IN  Add(Mul(prev_share, Sub(One, adoption_rate)),
            Mul(Sub(One, cost_share), Mul(Num(2), adoption_rate)))

\* a variant that keeps the share of the year before when the costs add up to zero
AdoptionStep_guarded(prev_share, cost, total_cost, adoption_rate) ==
    IF total_cost = 0 THEN prev_share
    ELSE Add(Mul(prev_share, Sub(One, adoption_rate)),
             Mul(Sub(One, Div(cost, total_cost)), adoption_rate))

\* the value written to adoption.loc[year, tech_name]
AdoptionStep(prev_share, cost, total_cost, adoption_rate) ==
    LET cost_share == Div(cost, total_cost)
    IN  Add(Mul(prev_share, Sub(One, adoption_rate)),
            Mul(Sub(One, cost_share), adoption_rate))

\* the inner loop over the technologies for one year, from the k-th on
RECURSIVE AdoptionTechLoop(_, _, _, _, _, _)
AdoptionTechLoop(self, scenario, costs, adoption, year, k) ==
    IF k > Len(self.tech_names) THEN adoption
    ELSE LET tech_name == self.tech_names[k]
             prev_year == year - 1
             total_cost == TotalCost(self, costs, year, Len(self.tech_names))
         IN  AdoptionTechLoop(self, scenario, costs,
                 SetLoc(adoption, year, tech_name,
                        AdoptionStep(Loc(adoption, prev_year, tech_name),
                                     Loc(costs, year, tech_name \o "_total_cost"),
                                     total_cost, scenario.technology_adoption_rate)),
                 year, k + 1)

\* the loop over self.years[1:], from the i-th year of the range on
RECURSIVE AdoptionYearLoop(_, _, _, _, _)
AdoptionYearLoop(self, scenario, costs, adoption, i) ==
    IF i > Len(self.years) THEN adoption
    ELSE AdoptionYearLoop(self, scenario, costs,
             AdoptionTechLoop(self, scenario, costs, adoption, self.years[i], 1),
             i + 1)

Steel_calculate_technology_adoption(self, scenario, costs) ==
    AdoptionYearLoop(self, scenario, costs,
                     InitialMixLoop(self, DataFrame(self.years), 1), 2)

Cement_calculate_technology_adoption(self, scenario, costs) ==
    AdoptionYearLoop(self, scenario, costs,
                     InitialMixLoop(self, DataFrame(self.years), 1), 2)

\* production[tech_name] = total_production * adoption[tech_name], for every technology
RECURSIVE ProductionLoop(_, _, _, _, _)
ProductionLoop(self, production, total_production, adoption, k) ==
    IF k > Len(self.tech_names) THEN production
    ELSE ProductionLoop(self,
             SetCol(production, self.tech_names[k],
                    VMul(total_production, adoption.data[self.tech_names[k]])),
             total_production, adoption, k + 1)

\* a variant that divides every share by the sum of the shares of its year
Steel_calculate_production_evolution_renormalized(self, adoption) ==
    LET total_production == Compound(self.base_production, Dec(2, 100), self.years,
                                     self.start_year)
        share_sum(i) == Add(Add(adoption.data["BF-BOF"][i], adoption.data["EAF"][i]),
                            adoption.data["H2-DRI"][i])
    IN  [index |-> self.years, columns |-> self.tech_names,
         data |-> [t \in Range(self.tech_names) |->
                     [i \in DOMAIN self.years |->
                         Mul(total_production[i], Div(adoption.data[t][i], share_sum(i)))]]]

Steel_calculate_production_evolution(self, adoption) ==
    ProductionLoop(self, DataFrame(self.years),
        Compound(self.base_production, Dec(2, 100), self.years, self.start_year),
        adoption, 1)

Cement_calculate_production_evolution(self, adoption) ==
    ProductionLoop(self, DataFrame(self.years),
        Compound(self.base_production, Dec(15, 1000), self.years, self.start_year),
        adoption, 1)

\* one row of df.sum(axis=1): the columns in order, NaN skipped
RECURSIVE RowSum(_, _, _)
RowSum(df, i, k) ==
    IF k = 0 THEN 0
    ELSE LET v == df.data[df.columns[k]][i]
         IN  IF v = NaN THEN RowSum(df, i, k - 1) ELSE Add(RowSum(df, i, k - 1), v)

\* a variant that adds the total of a row to its sum once more
WithTotal_twice(df) ==
    SetCol(df, "total", [i \in DOMAIN df.index |-> Mul(Num(2), RowSum(df, i, Len(df.columns)))])

\* df['total'] = df.sum(axis=1)
WithTotal(df) ==
    SetCol(df, "total", [i \in DOMAIN df.index |-> RowSum(df, i, Len(df.columns))])

RECURSIVE SteelEmissionsLoop(_, _, _, _)
SteelEmissionsLoop(self, emissions, production, k) ==
    IF k > Len(self.tech_names) THEN emissions
    ELSE LET tech_name == self.tech_names[k]
         IN  SteelEmissionsLoop(self,
                 SetCol(emissions, tech_name,
                        SMul(self.technologies[tech_name].carbon_intensity,
                             production.data[tech_name])),
                 production, k + 1)

Steel_calculate_emissions(self, production, adoption) ==
    WithTotal(SteelEmissionsLoop(self, DataFrame(self.years), production, 1))

RECURSIVE CementEmissionsLoop(_, _, _, _)
CementEmissionsLoop(self, emissions, production, k) ==
    IF k > Len(self.tech_names) THEN emissions
    ELSE LET tech_name == self.tech_names[k]
             tech == self.technologies[tech_name]
             process_emissions == SMul(tech.carbon_intensity, production.data[tech_name])
             fuel_emissions ==
                 SMul(Sub(One, tech.alternative_fuel_share),
                      SMul(Dec(1, 10), production.data[tech_name]))
         IN  CementEmissionsLoop(self,
                 SetCol(emissions, tech_name, VAdd(process_emissions, fuel_emissions)),
                 production, k + 1)

Cement_calculate_emissions(self, production, adoption) ==
    WithTotal(CementEmissionsLoop(self, DataFrame(self.years), production, 1))

\* a variant that keeps the last year's mix as the model's initial mix
Steel_simulate_scenario_keeping_mix(self, scenario) ==
    LET costs == Steel_calculate_cost_evolution(self, scenario)
        adoption == Steel_calculate_technology_adoption(self, scenario, costs)
        production == Steel_calculate_production_evolution(self, adoption)
        emissions == Steel_calculate_emissions(self, production, adoption)
    IN  [self |-> [self EXCEPT !.initial_mix =
                      [t \in Range(self.tech_names) |-> adoption.data[t][Len(self.years)]]],
         out  |-> Ok([costs |-> costs, technology_mix |-> adoption,
                      production |-> production, emissions |-> emissions])]

Steel_simulate_scenario(self, scenario) ==
    LET costs == Steel_calculate_cost_evolution(self, scenario)
        adoption == Steel_calculate_technology_adoption(self, scenario, costs)
        production == Steel_calculate_production_evolution(self, adoption)
        emissions == Steel_calculate_emissions(self, production, adoption)
    IN  [self |-> self,
         out  |-> Ok([costs |-> costs, technology_mix |-> adoption,
                      production |-> production, emissions |-> emissions])]

\* a variant that keeps the output of the last year as the model's base production
Cement_simulate_scenario_keeping_output(self, scenario) ==
    LET costs == Cement_calculate_cost_evolution(self, scenario)
        adoption == Cement_calculate_technology_adoption(self, scenario, costs)
        production == Cement_calculate_production_evolution(self, adoption)
        emissions == Cement_calculate_emissions(self, production, adoption)
    IN  [self |-> [self EXCEPT !.base_production =
                      Mul(self.base_production,
                          Pow(Add(One, Dec(15, 1000)), self.end_year - self.start_year + 1))],
         out  |-> Ok([costs |-> costs, technology_mix |-> adoption,
                      production |-> production, emissions |-> emissions])]

Cement_simulate_scenario(self, scenario) ==
    LET costs == Cement_calculate_cost_evolution(self, scenario)
        adoption == Cement_calculate_technology_adoption(self, scenario, costs)
        production == Cement_calculate_production_evolution(self, adoption)
        emissions == Cement_calculate_emissions(self, production, adoption)
    IN  [self |-> self,
         out  |-> Ok([costs |-> costs, technology_mix |-> adoption,
                      production |-> production, emissions |-> emissions])]

(***************************************************************************)
(* market.py                                                               *)
(***************************************************************************)
SegmentNames == <<"Public Infrastructure", "Commercial Construction",
                  "Residential Construction", "Industrial">>

\* MarketTransformationModel.__init__ and _init_market_data
MarketTransformationModel(start, end) ==
    [start_year |-> start,
     end_year   |-> end,
     years      |-> Arange(start, end),
     carbon_model |-> CarbonPricingModel(start, end),
     steel_model  |-> SteelIndustryModel(start, end),
     cement_model |-> CementIndustryModel(start, end),
     segment_names |-> SegmentNames,
     customer_segments |->
        [g \in Range(SegmentNames) |->
            CASE g = "Public Infrastructure" ->
                   [share |-> Dec(25, 100), green_premium_willingness |-> Dec(15, 100),
                    regulatory_sensitivity |-> Dec(9, 10)]
              [] g = "Commercial Construction" ->
                   [share |-> Dec(35, 100), green_premium_willingness |-> Dec(10, 100),
                    regulatory_sensitivity |-> Dec(7, 10)]
              [] g = "Residential Construction" ->
                   [share |-> Dec(20, 100), green_premium_willingness |-> Dec(5, 100),
                    regulatory_sensitivity |-> Dec(5, 10)]
              [] OTHER ->
                   [share |-> Dec(20, 100), green_premium_willingness |-> Dec(8, 100),
                    regulatory_sensitivity |-> Dec(6, 10)]],
     regional_shares |->
        [r \in {"Europe", "North America", "Asia", "Other"} |->
            CASE r = "Europe" -> Dec(25, 100) [] r = "North America" -> Dec(20, 100)
              [] r = "Asia" -> Dec(40, 100) [] OTHER -> Dec(15, 100)],
     initial_green_adoption |-> Dec(5, 100)]

\* the CarbonPriceScenario that market.py derives from a MarketScenario
CarbonScenarioOf(scenario) ==
    [name |-> scenario.name,
     eu_ets_base |-> scenario.carbon_price_start,
     eu_ets_growth_rate |-> scenario.carbon_price_growth,
     cbam_implementation_year |-> 2026,
     us_carbon_price_start |-> Mul(scenario.carbon_price_start, Dec(8, 10)),
     us_carbon_price_growth |-> scenario.carbon_price_growth,
     asian_market_adoption_rate |-> Dec(5, 100),
     global_south_adoption_rate |-> Dec(3, 100)]

Market_run_carbon_simulation(self, scenario) ==
    Carbon_simulate_scenario(self.carbon_model, CarbonScenarioOf(scenario))

\* a variant that hands the steel model the discounted carbon price of the US market
SteelScenarioOf_discounted(scenario) ==
    [name |-> scenario.name,
     carbon_price_start |-> Mul(scenario.carbon_price_start, Dec(8, 10)),
     carbon_price_growth |-> scenario.carbon_price_growth,
     hydrogen_cost_start |-> scenario.steel_hydrogen_cost_start,
     hydrogen_cost_growth |-> scenario.steel_hydrogen_cost_growth,
     electricity_cost_start |-> scenario.steel_electricity_cost_start,
     electricity_cost_growth |-> scenario.steel_electricity_cost_growth,
     scrap_availability_growth |-> Dec(3, 100),
     technology_adoption_rate |-> Dec(5, 100)]

\* a variant that hands the steel model the adoption rate of the customers
SteelScenarioOf_customer_rate(scenario) ==
    [name |-> scenario.name,
     carbon_price_start |-> scenario.carbon_price_start,
     carbon_price_growth |-> scenario.carbon_price_growth,
     hydrogen_cost_start |-> scenario.steel_hydrogen_cost_start,
     hydrogen_cost_growth |-> scenario.steel_hydrogen_cost_growth,
     electricity_cost_start |-> scenario.steel_electricity_cost_start,
     electricity_cost_growth |-> scenario.steel_electricity_cost_growth,
     scrap_availability_growth |-> Dec(3, 100),
     technology_adoption_rate |-> scenario.customer_adoption_rate]

\* the SteelScenario that market.py and main.py derive from a MarketScenario
SteelScenarioOf(scenario) ==
    [name |-> scenario.name,
     carbon_price_start |-> scenario.carbon_price_start,
     carbon_price_growth |-> scenario.carbon_price_growth,
     hydrogen_cost_start |-> scenario.steel_hydrogen_cost_start,
     hydrogen_cost_growth |-> scenario.steel_hydrogen_cost_growth,
     electricity_cost_start |-> scenario.steel_electricity_cost_start,
     electricity_cost_growth |-> scenario.steel_electricity_cost_growth,
     scrap_availability_growth |-> Dec(3, 100),
     technology_adoption_rate |-> Dec(5, 100)]

\* the CementScenario that market.py and main.py derive from a MarketScenario
CementScenarioOf(scenario) ==
    [name |-> scenario.name,
     carbon_price_start |-> scenario.carbon_price_start,
     carbon_price_growth |-> scenario.carbon_price_growth,
     electricity_cost_start |-> scenario.cement_electricity_cost_start,
     electricity_cost_growth |-> scenario.cement_electricity_cost_growth,
     alternative_fuel_cost_start |-> scenario.cement_alternative_fuel_cost_start,
     alternative_fuel_cost_growth |-> scenario.cement_alternative_fuel_cost_growth,
     clinker_substitution_rate |-> Dec(5, 100),
     technology_adoption_rate |-> Dec(4, 100)]

Market_run_steel_simulation(self, scenario) ==
    Steel_simulate_scenario(self.steel_model, SteelScenarioOf(scenario))

Market_run_cement_simulation(self, scenario) ==
    Cement_simulate_scenario(self.cement_model, CementScenarioOf(scenario))

\* a variant without the cap at 1.0
MarketAdoptionStep_uncapped(prev, regulatory_driver, market_driver) ==
    Add(prev, Mul(Sub(One, prev), Add(regulatory_driver, market_driver)))

\* a variant that adds the drivers without the remaining share (1 - prev)
MarketAdoptionStep_unsaturated(prev, regulatory_driver, market_driver) ==
    PyMin(One, Add(prev, Add(regulatory_driver, market_driver)))

\* the value written to adoption.loc[year, segment]
MarketAdoptionStep(prev, regulatory_driver, market_driver) ==
    PyMin(One, Add(prev, Mul(Sub(One, prev), Add(regulatory_driver, market_driver))))

\* the loop over self.years[1:] for one segment, from the i-th year of the range on
RECURSIVE SegmentYearLoop(_, _, _, _, _, _)
SegmentYearLoop(self, scenario, regulatory_pressure, adoption, segment, i) ==
    IF i > Len(self.years) THEN adoption
    ELSE LET year == self.years[i]
             prev_year == year - 1
             regulatory_driver ==
                 Mul(self.customer_segments[segment].regulatory_sensitivity,
                     regulatory_pressure[year - self.start_year + 1])
             market_driver == scenario.customer_adoption_rate
         IN  SegmentYearLoop(self, scenario, regulatory_pressure,
                 SetLoc(adoption, year, segment,
                        MarketAdoptionStep(Loc(adoption, prev_year, segment),
                                           regulatory_driver, market_driver)),
                 segment, i + 1)

\* the loop over the customer segments, from the k-th on
RECURSIVE SegmentLoop(_, _, _, _, _)
SegmentLoop(self, scenario, regulatory_pressure, adoption, k) ==
    IF k > Len(self.segment_names) THEN adoption
    ELSE SegmentLoop(self, scenario, regulatory_pressure,
             SegmentYearLoop(self, scenario, regulatory_pressure,
                 SetColScalar(adoption, self.segment_names[k], self.initial_green_adoption),
                 self.segment_names[k], 2),
             k + 1)

\* (1 + growth) ** (years - start_year)
Growth(growth, years, start) ==
    [i \in DOMAIN years |-> Pow(Add(One, growth), years[i] - start)]

Market_calculate_market_adoption(self, scenario) ==
    SegmentLoop(self, scenario,
        Growth(scenario.regulatory_pressure_growth, self.years, self.start_year),
        DataFrame(self.years), 1)

RECURSIVE PremiumLoop(_, _, _, _)
PremiumLoop(self, premium, base_premium, k) ==
    IF k > Len(self.segment_names) THEN premium
    ELSE PremiumLoop(self,
             SetCol(premium, self.segment_names[k],
                    SMul(self.customer_segments[self.segment_names[k]].green_premium_willingness,
                         base_premium)),
             base_premium, k + 1)

\* a variant that leaves out the willingness of the segment
Market_calculate_green_premium_unscaled(self, scenario) ==
    LET base_premium == Compound(scenario.green_premium_start, scenario.green_premium_growth,
                                 self.years, self.start_year)
    IN  [index |-> self.years, columns |-> self.segment_names,
         data |-> [g \in Range(self.segment_names) |-> base_premium]]

Market_calculate_green_premium(self, scenario) ==
    PremiumLoop(self, DataFrame(self.years),
        Compound(scenario.green_premium_start, scenario.green_premium_growth,
                 self.years, self.start_year),
        1)

RECURSIVE ValueLoop(_, _, _, _, _)
ValueLoop(self, market_value, total_value, premium, k) ==
    IF k > Len(self.segment_names) THEN market_value
    ELSE LET segment == self.segment_names[k]
             segment_share == self.customer_segments[segment].share
         IN  ValueLoop(self,
                 SetCol(market_value, segment,
                        VMul(SMul(segment_share, total_value),
                             [i \in DOMAIN premium.index |->
                                 Add(One, premium.data[segment][i])])),
                 total_value, premium, k + 1)

\* a variant that weights the value of a segment with its adoption
Market_calculate_market_value_by_adoption(self, adoption, premium) ==
    LET total_value == Compound(Num(1000), Dec(3, 100), self.years, self.start_year)
    IN  [index |-> self.years, columns |-> self.segment_names,
         data |-> [g \in Range(self.segment_names) |->
                     VMul(VMul(SMul(self.customer_segments[g].share, total_value),
                               [i \in DOMAIN premium.index |-> Add(One, premium.data[g][i])]),
                          adoption.data[g])]]

Market_calculate_market_value(self, adoption, premium) ==
    ValueLoop(self, DataFrame(self.years),
        Compound(Num(1000), Dec(3, 100), self.years, self.start_year),
        premium, 1)

\* the bundle returned once the three sub-simulations have returned
MarketBundle(self, scenario, carbon_results, steel_results, cement_results) ==
    LET adoption == Market_calculate_market_adoption(self, scenario)
        premium == Market_calculate_green_premium(self, scenario)
        market_value == Market_calculate_market_value(self, adoption, premium)
    IN  [carbon_pricing |-> carbon_results,
         steel_industry |-> steel_results,
         cement_industry |-> cement_results,
         market_adoption |-> adoption,
         green_premium |-> premium,
         market_value |-> market_value]

\* simulate_scenario after the cement simulation
MarketAfterCement(self, scenario, carbon_results, steel_results, cement_results) ==
    LET self3 == [self EXCEPT !.carbon_model = carbon_results.self,
                              !.steel_model = steel_results.self,
                              !.cement_model = cement_results.self]
    IN  IF ~IsOk(cement_results.out)
        THEN [self |-> self3, out |-> cement_results.out]
        ELSE [self |-> self3,
              out  |-> Ok(MarketBundle(self, scenario, carbon_results.out.value,
                                       steel_results.out.value, cement_results.out.value))]

\* simulate_scenario after the steel simulation
MarketAfterSteel(self, scenario, carbon_results, steel_results) ==
    IF ~IsOk(steel_results.out)
    THEN [self |-> [self EXCEPT !.carbon_model = carbon_results.self,
                                !.steel_model = steel_results.self],
          out  |-> steel_results.out]
    ELSE MarketAfterCement(self, scenario, carbon_results, steel_results,
                           Market_run_cement_simulation(self, scenario))

\* simulate_scenario after the carbon simulation
MarketAfterCarbon(self, scenario, carbon_results) ==
    IF ~IsOk(carbon_results.out)
    THEN [self |-> [self EXCEPT !.carbon_model = carbon_results.self],
          out  |-> carbon_results.out]
    ELSE MarketAfterSteel(self, scenario, carbon_results,
                          Market_run_steel_simulation(self, scenario))

\* the sub-simulations run in order; the first that raises ends the call
Market_simulate_scenario(self, scenario) ==
    MarketAfterCarbon(self, scenario, Market_run_carbon_simulation(self, scenario))

(***************************************************************************)
(* main.py                                                                 *)
(***************************************************************************)
\* the default year range of every model constructor
DefaultStartYear == 2025

DefaultEndYear == 2040

ConfigKeys ==
    {"name", "carbon_price_start", "carbon_price_growth",
     "steel_hydrogen_cost_start", "steel_hydrogen_cost_growth",
     "steel_electricity_cost_start", "steel_electricity_cost_growth",
     "cement_electricity_cost_start", "cement_electricity_cost_growth",
     "cement_alternative_fuel_cost_start", "cement_alternative_fuel_cost_growth",
     "green_premium_start", "green_premium_growth",
     "customer_adoption_rate", "regulatory_pressure_growth"}

\* a variant with another default for the carbon price
ConfigDefault_other_price(k) ==
    CASE k = "name" -> "Custom"
      [] k = "carbon_price_start" -> Num(50)
      [] k \in {"carbon_price_growth", "customer_adoption_rate"} -> Dec(8, 100)
      [] k = "steel_hydrogen_cost_start" -> Num(4)
      [] k = "steel_hydrogen_cost_growth" -> Neg(Dec(5, 100))
      [] k \in {"steel_electricity_cost_start", "cement_electricity_cost_start"} -> Num(60)
      [] k \in {"steel_electricity_cost_growth", "cement_electricity_cost_growth"} -> Dec(2, 100)
      [] k = "cement_alternative_fuel_cost_start" -> Num(30)
      [] k = "cement_alternative_fuel_cost_growth" -> Neg(Dec(3, 100))
      [] k = "green_premium_start" -> Dec(15, 100)
      [] k = "green_premium_growth" -> Dec(5, 100)
      [] OTHER -> Dec(10, 100)

\* the defaults of run_simulation's scenario_config.get(key, default)
ConfigDefault(k) ==
    CASE k = "name" -> "Custom"
      [] k = "carbon_price_start" -> Num(80)
      [] k = "carbon_price_growth" -> Dec(8, 100)
      [] k = "steel_hydrogen_cost_start" -> Num(4)
      [] k = "steel_hydrogen_cost_growth" -> Neg(Dec(5, 100))
      [] k = "steel_electricity_cost_start" -> Num(60)
      [] k = "steel_electricity_cost_growth" -> Dec(2, 100)
      [] k = "cement_electricity_cost_start" -> Num(60)
      [] k = "cement_electricity_cost_growth" -> Dec(2, 100)
      [] k = "cement_alternative_fuel_cost_start" -> Num(30)
      [] k = "cement_alternative_fuel_cost_growth" -> Neg(Dec(3, 100))
      [] k = "green_premium_start" -> Dec(15, 100)
      [] k = "green_premium_growth" -> Dec(5, 100)
      [] k = "customer_adoption_rate" -> Dec(8, 100)
      [] OTHER -> Dec(10, 100)

\* scenario_config.get(k, default)
ConfigGet(scenario_config, k) ==
    IF k \in DOMAIN scenario_config THEN scenario_config[k] ELSE ConfigDefault(k)

\* the MarketScenario run_simulation builds
ScenarioOfConfig(scenario_config) == [k \in ConfigKeys |-> ConfigGet(scenario_config, k)]

\* d[k] of a dict, which raises KeyError when the key is missing
GetItem(d, k) == IF k \in DOMAIN d THEN Ok(d[k]) ELSE Raise("KeyError", k)

\* run_simulation after the cement model has run: the merged results
MergeResults(market_results, steel_results, cement_results) ==
    LET adoption == GetItem(market_results, "market_adoption")
        value == GetItem(market_results, "market_value")
        regional == GetItem(market_results, "regional_evolution")
    IN  IF ~IsOk(cement_results) THEN cement_results
        ELSE IF ~IsOk(adoption) THEN adoption
        ELSE IF ~IsOk(value) THEN value
        ELSE IF ~IsOk(regional) THEN regional
        ELSE Ok([market_adoption |-> adoption.value,
                 market_value |-> value.value,
                 regional_evolution |-> regional.value,
                 steel_industry |-> steel_results,
                 cement_industry |-> cement_results.value])

\* run_simulation after the steel model has run
RunAfterSteel(scenario, market_results, steel_results) ==
    IF ~IsOk(steel_results) THEN steel_results
    ELSE MergeResults(market_results.value, steel_results.value,
             Cement_simulate_scenario(
                 CementIndustryModel(DefaultStartYear, DefaultEndYear),
                 CementScenarioOf(scenario)).out)

\* run_simulation after the market model has run
RunAfterMarket(scenario, market_results) ==
    IF ~IsOk(market_results) THEN market_results
    ELSE RunAfterSteel(scenario, market_results,
             Steel_simulate_scenario(
                 SteelIndustryModel(DefaultStartYear, DefaultEndYear),
                 SteelScenarioOf(scenario)).out)

run_simulation(scenario_config) ==
    RunAfterMarket(ScenarioOfConfig(scenario_config),
        Market_simulate_scenario(
            MarketTransformationModel(DefaultStartYear, DefaultEndYear),
            ScenarioOfConfig(scenario_config)).out)

\* the values of a results mapping: a table, or a dict with its items
Frame(df) == [type |-> "DataFrame", frame |-> df]

Dict(items) == [type |-> "dict", items |-> items]

\* df.to_dict(orient='split'): the row labels, the column names and the rows
ToDictSplit(df) ==
    Dict([index   |-> df.index,
          columns |-> df.columns,
          data    |-> [i \in DOMAIN df.index |->
                         [k \in DOMAIN df.columns |-> df.data[df.columns[k]][i]]]])

\* df.to_csv(path): a header line of the column names after an empty first field, and
\* a line for every row, its label first
ToCsv(df) ==
    [kind   |-> "csv",
     header |-> <<"">> \o df.columns,
     rows   |-> [i \in DOMAIN df.index |->
                   <<df.index[i]>> \o [k \in DOMAIN df.columns |-> df.data[df.columns[k]][i]]]]

\* the nested dict after the loop over its items: every table replaced by its split form
SplitItems(data) ==
    Dict([subkey \in DOMAIN data.items |->
             IF data.items[subkey].type = "DataFrame" THEN ToDictSplit(data.items[subkey].frame)
             ELSE data.items[subkey]])

\* the files save_results writes for one entry of the results
FilesOf(key, data) ==
    IF data.type # "DataFrame"
    THEN [name \in {key \o "_" \o subkey \o ".csv" :
                       subkey \in {k \in DOMAIN data.items : data.items[k].type = "DataFrame"}}
                   \cup {key \o ".json"} |->
             IF name = key \o ".json" THEN [kind |-> "json", value |-> SplitItems(data)]
             ELSE ToCsv(data.items[CHOOSE subkey \in DOMAIN data.items :
                                      name = key \o "_" \o subkey \o ".csv"].frame)]
    ELSE [name \in {key \o ".csv", key \o ".json"} |->
             IF name = key \o ".csv" THEN ToCsv(data.frame)
             ELSE [kind |-> "json", value |-> ToDictSplit(data.frame)]]

\* a variant that writes the split forms to the files and leaves the caller's dicts alone
save_results_copying(results) ==
    [results |-> results,
     files   |-> [name \in UNION {DOMAIN FilesOf(key, results[key]) : key \in DOMAIN results} |->
                     LET key == CHOOSE k \in DOMAIN results : name \in DOMAIN FilesOf(k, results[k])
                     IN  FilesOf(key, results[key])[name]]]

\* save_results: the results mapping of the caller as the call leaves it, and the files
\* of the output directory
save_results(results) ==
    [results |-> [key \in DOMAIN results |->
                     IF results[key].type = "DataFrame" THEN results[key] ELSE SplitItems(results[key])],
     files   |-> [name \in UNION {DOMAIN FilesOf(key, results[key]) : key \in DOMAIN results} |->
                     LET key == CHOOSE k \in DOMAIN results : name \in DOMAIN FilesOf(k, results[k])
                     IN  FilesOf(key, results[key])[name]]]

(***************************************************************************)
(* The callers: scenarios and year ranges the models are driven with.      *)
(***************************************************************************)
\* the first year of every range; the ranges differ in their length
FirstYear == 2025

CarbonScenarios ==
    {[name |-> "Carbon",
      eu_ets_base |-> b,
      eu_ets_growth_rate |-> g,
      cbam_implementation_year |-> y,
      us_carbon_price_start |-> Num(50),
      us_carbon_price_growth |-> Dec(6, 100),
      asian_market_adoption_rate |-> Dec(5, 100),
      global_south_adoption_rate |-> Dec(3, 100)] :
        b \in {Num(80), Num(50)},
        g \in {Dec(8, 100), Neg(Dec(50, 100))},
        y \in {2025, 2027, 2040}}

SteelScenarios ==
    {[name |-> "Steel",
      carbon_price_start |-> c,
      carbon_price_growth |-> Dec(8, 100),
      hydrogen_cost_start |-> Num(4),
      hydrogen_cost_growth |-> Neg(Dec(5, 100)),
      electricity_cost_start |-> Num(60),
      electricity_cost_growth |-> Dec(2, 100),
      scrap_availability_growth |-> Dec(3, 100),
      technology_adoption_rate |-> r] :
        c \in {Num(80), Num(20)},
        r \in {Dec(5, 100), 0, Dec(50, 100), One, Num(2), Neg(Dec(50, 100))}}
    \cup
    \* a hydrogen price below zero, which no check refuses: the costs of the second
    \* year, 1343.52 + 907.92 + 1623.64 + 12.24 + 30.6 - 50 * 78.3584, add up to 0
    {[name |-> "Steel",
      carbon_price_start |-> Num(80),
      carbon_price_growth |-> Dec(8, 100),
      hydrogen_cost_start |-> Neg(Num(78) + Dec(3584, 10000)),
      hydrogen_cost_growth |-> 0,
      electricity_cost_start |-> Num(60),
      electricity_cost_growth |-> Dec(2, 100),
      scrap_availability_growth |-> Dec(3, 100),
      technology_adoption_rate |-> r] :
        r \in {Dec(5, 100), 0, One}}
    \cup
    \* other names and another growth of the scrap supply
    {[name |-> n,
      carbon_price_start |-> Num(80),
      carbon_price_growth |-> Dec(8, 100),
      hydrogen_cost_start |-> Num(4),
      hydrogen_cost_growth |-> Neg(Dec(5, 100)),
      electricity_cost_start |-> Num(60),
      electricity_cost_growth |-> Dec(2, 100),
      scrap_availability_growth |-> g,
      technology_adoption_rate |-> Dec(5, 100)] :
        n \in {"Steel", "Other"},
        g \in {Dec(3, 100), Dec(50, 100)}}

CementScenarios ==
    {[name |-> "Cement",
      carbon_price_start |-> c,
      carbon_price_growth |-> Dec(8, 100),
      electricity_cost_start |-> Num(60),
      electricity_cost_growth |-> Dec(2, 100),
      alternative_fuel_cost_start |-> Num(30),
      alternative_fuel_cost_growth |-> Neg(Dec(3, 100)),
      clinker_substitution_rate |-> Dec(5, 100),
      technology_adoption_rate |-> r] :
        c \in {Num(80), Num(20)},
        r \in {Dec(4, 100), 0, Dec(50, 100), One, Num(2), Neg(Dec(50, 100))}}
    \cup
    \* an alternative fuel price below zero and no growth: the costs of the second
    \* year, 698.65 + 2 * 80.5 + 0.225 * 60 - 0.15 * 5821, add up to 0
    {[name |-> "Cement",
      carbon_price_start |-> Dec(805, 10),
      carbon_price_growth |-> 0,
      electricity_cost_start |-> Num(60),
      electricity_cost_growth |-> 0,
      alternative_fuel_cost_start |-> Neg(Num(5821)),
      alternative_fuel_cost_growth |-> 0,
      clinker_substitution_rate |-> Dec(5, 100),
      technology_adoption_rate |-> r] :
        r \in {Dec(4, 100), 0, One}}
    \cup
    \* other names and another rate of clinker substitution
    {[name |-> n,
      carbon_price_start |-> Num(80),
      carbon_price_growth |-> Dec(8, 100),
      electricity_cost_start |-> Num(60),
      electricity_cost_growth |-> Dec(2, 100),
      alternative_fuel_cost_start |-> Num(30),
      alternative_fuel_cost_growth |-> Neg(Dec(3, 100)),
      clinker_substitution_rate |-> g,
      technology_adoption_rate |-> Dec(4, 100)] :
        n \in {"Cement", "Other"},
        g \in {Dec(5, 100), Dec(50, 100)}}

\* the configuration main uses when no --config file is given
BaselineConfig ==
    [name |-> "Baseline",
     carbon_price_start |-> Num(80),
     carbon_price_growth |-> Dec(8, 100),
     steel_hydrogen_cost_start |-> Num(4),
     steel_hydrogen_cost_growth |-> Neg(Dec(5, 100)),
     steel_electricity_cost_start |-> Num(60),
     steel_electricity_cost_growth |-> Dec(2, 100),
     cement_electricity_cost_start |-> Num(60),
     cement_electricity_cost_growth |-> Dec(2, 100),
     cement_alternative_fuel_cost_start |-> Num(30),
     cement_alternative_fuel_cost_growth |-> Neg(Dec(3, 100)),
     green_premium_start |-> Dec(15, 100),
     green_premium_growth |-> Dec(5, 100),
     customer_adoption_rate |-> Dec(8, 100),
     regulatory_pressure_growth |-> Dec(10, 100)]

MarketScenarios ==
    {[BaselineConfig EXCEPT !["customer_adoption_rate"] = a,
                            !["regulatory_pressure_growth"] = g] :
        a \in {Dec(8, 100), 0, Dec(50, 100), Neg(Dec(95, 100))},
        g \in {Dec(10, 100), 0, One, Neg(Dec(50, 100))}}
    \cup
    \* rates of a size and sign no check refuses: the regulatory pressure is 1, -2, 4, -8
    {[BaselineConfig EXCEPT !["customer_adoption_rate"] = Num(3),
                            !["regulatory_pressure_growth"] = Neg(Num(3))]}

\* market scenarios that differ in the premium and in the pathway parameters
ValueScenarios ==
    {[BaselineConfig EXCEPT !["green_premium_start"] = p,
                            !["green_premium_growth"] = q,
                            !["customer_adoption_rate"] = a,
                            !["carbon_price_start"] = c,
                            !["steel_hydrogen_cost_start"] = h] :
        p \in {Dec(15, 100), Dec(30, 100)},
        q \in {Dec(5, 100), Neg(Dec(50, 100))},
        a \in {Dec(8, 100), Dec(50, 100)},
        c \in {Num(80), Num(50)},
        h \in {Num(4), Num(6)}}

\* a configuration that differs from the defaults in every key
OtherConfig ==
    [k \in ConfigKeys |->
        IF k = "name" THEN "Other"
        ELSE IF k = "carbon_price_start" THEN Num(50)
        ELSE Add(ConfigDefault(k), Dec(1, 100))]

\* the keys a configuration mapping holds: none, one, all but one, or all
ConfigKeySets ==
    {{}} \cup {{k} : k \in ConfigKeys} \cup {ConfigKeys \ {k} : k \in ConfigKeys}
         \cup {ConfigKeys}

ScenarioConfigs ==
    {[k \in K |-> OtherConfig[k]] : K \in ConfigKeySets} \cup {BaselineConfig}

\* the two calls of SteelIndustryModel.simulate_scenario that run side by side, and the
\* local variables of a call that has not begun
Runs == {1, 2}

IdleRun ==
    [pc |-> "idle", model |-> "none", scenario |-> [none |-> TRUE],
     costs |-> 0, adoption |-> 0, production |-> 0, emissions |-> 0, written |-> FALSE]

NoOut == [status |-> "none"]

NoCall == [op |-> "none", arg |-> [none |-> TRUE], out |-> NoOut]

Init ==
    /\ start_year = FirstYear
    /\ end_year \in FirstYear..(FirstYear + MaxYears - 1)
    /\ carbon_model = CarbonPricingModel(start_year, end_year)
    /\ steel_model = SteelIndustryModel(start_year, end_year)
    /\ cement_model = CementIndustryModel(start_year, end_year)
    /\ market_model = MarketTransformationModel(start_year, end_year)
    /\ call = NoCall
    /\ prev_out = NoOut
    /\ runs = [t \in Runs |-> IdleRun]
    /\ heap = <<>>

\* the call is recorded; prev_out keeps the outcome of the call before it when
\* that was the same operation on the same argument; a call that runs from its first
\* statement to its return touches no call that runs in steps
Record(op, arg, out) ==
    /\ call' = [op |-> op, arg |-> arg, out |-> out]
    /\ prev_out' = IF call.op = op /\ call.arg = arg THEN call.out ELSE NoOut
    /\ UNCHANGED <<runs, heap>>

\* one of the four price methods of the carbon model
RegionPrices(self, scenario, region) ==
    CASE region = "EU" -> Carbon_calculate_eu_prices(self, scenario)
      [] region = "US" -> Carbon_calculate_us_prices(self, scenario)
      [] region = "Asia" -> Carbon_calculate_asian_prices(self, scenario)
      [] OTHER -> Carbon_calculate_global_south_prices(self, scenario)

CalculatePrices ==
    \E scenario \in CarbonScenarios, region \in Range(Regions) :
        /\ Record("carbon._calculate_prices", [scenario |-> scenario, region |-> region],
                  Ok(RegionPrices(carbon_model, scenario, region)))
        /\ UNCHANGED <<start_year, end_year, carbon_model, steel_model, cement_model,
                       market_model>>

CalculateCbamImpact ==
    \E scenario \in CarbonScenarios :
        LET eu_prices == Carbon_calculate_eu_prices(carbon_model, scenario)
        IN  /\ Record("carbon._calculate_cbam_impact",
                      [scenario |-> scenario, eu_prices |-> eu_prices],
                      Ok(Carbon_calculate_cbam_impact(carbon_model, scenario, eu_prices)))
            /\ UNCHANGED <<start_year, end_year, carbon_model, steel_model, cement_model,
                           market_model>>

\* _calculate_market_evolution on the prices simulate_scenario hands it, of the carbon
\* model or of a carbon model built for a longer range of years
CalculateMarketEvolution ==
    \E scenario \in CarbonScenarios,
       self \in {carbon_model} \cup {CarbonPricingModel(start_year, start_year + n - 1) :
                                        n \in {MaxHorizon}} :
        LET eu_prices == Carbon_calculate_eu_prices(self, scenario)
            us_prices == Carbon_calculate_us_prices(self, scenario)
            asian_prices == Carbon_calculate_asian_prices(self, scenario)
            global_south_prices == Carbon_calculate_global_south_prices(self, scenario)
        IN  /\ Record("carbon._calculate_market_evolution",
                      [scenario |-> scenario, years |-> self.years, eu_prices |-> eu_prices,
                       us_prices |-> us_prices, asian_prices |-> asian_prices,
                       global_south_prices |-> global_south_prices],
                      Ok(Carbon_calculate_market_evolution(self, eu_prices, us_prices,
                             asian_prices, global_south_prices)))
            /\ UNCHANGED <<start_year, end_year, carbon_model, steel_model, cement_model,
                           market_model>>

\* _calculate_trade_shifts on the prices and the CBAM table simulate_scenario hands it
CalculateTradeShifts ==
    \E scenario \in CarbonScenarios :
        LET eu_prices == Carbon_calculate_eu_prices(carbon_model, scenario)
            us_prices == Carbon_calculate_us_prices(carbon_model, scenario)
            asian_prices == Carbon_calculate_asian_prices(carbon_model, scenario)
            global_south_prices == Carbon_calculate_global_south_prices(carbon_model, scenario)
            cbam_impact == Carbon_calculate_cbam_impact(carbon_model, scenario, eu_prices)
        IN  /\ Record("carbon._calculate_trade_shifts",
                      [scenario |-> scenario, eu_prices |-> eu_prices, us_prices |-> us_prices,
                       asian_prices |-> asian_prices,
                       global_south_prices |-> global_south_prices,
                       cbam_impact |-> cbam_impact],
                      Carbon_calculate_trade_shifts(carbon_model, eu_prices, us_prices,
                          asian_prices, global_south_prices, cbam_impact))
            /\ UNCHANGED <<start_year, end_year, carbon_model, steel_model, cement_model,
                           market_model>>

CarbonSimulate ==
    \E scenario \in CarbonScenarios :
        LET r == Carbon_simulate_scenario(carbon_model, scenario)
        IN  /\ Record("carbon.simulate_scenario", scenario, r.out)
            /\ carbon_model' = r.self
            /\ UNCHANGED <<start_year, end_year, steel_model, cement_model, market_model>>

SteelSimulate ==
    \E scenario \in SteelScenarios :
        LET r == Steel_simulate_scenario(steel_model, scenario)
        IN  /\ Record("steel.simulate_scenario", scenario, r.out)
            /\ steel_model' = r.self
            /\ UNCHANGED <<start_year, end_year, carbon_model, cement_model, market_model>>

CementSimulate ==
    \E scenario \in CementScenarios :
        LET r == Cement_simulate_scenario(cement_model, scenario)
        IN  /\ Record("cement.simulate_scenario", scenario, r.out)
            /\ cement_model' = r.self
            /\ UNCHANGED <<start_year, end_year, carbon_model, steel_model, market_model>>

CalculateMarketAdoption ==
    \E scenario \in MarketScenarios :
        /\ Record("market._calculate_market_adoption", scenario,
                  Ok(Market_calculate_market_adoption(market_model, scenario)))
        /\ UNCHANGED <<start_year, end_year, carbon_model, steel_model, cement_model,
                       market_model>>

MarketSimulate ==
    \E scenario \in MarketScenarios :
        LET r == Market_simulate_scenario(market_model, scenario)
        IN  /\ Record("market.simulate_scenario", scenario, r.out)
            /\ market_model' = r.self
            /\ UNCHANGED <<start_year, end_year, carbon_model, steel_model, cement_model>>

\* the three tables of the market model itself, as simulate_scenario computes them
\* once the sub-simulations have returned
CalculateMarketTables ==
    \E scenario \in ValueScenarios :
        LET adoption == Market_calculate_market_adoption(market_model, scenario)
            premium == Market_calculate_green_premium(market_model, scenario)
            market_value == Market_calculate_market_value(market_model, adoption, premium)
        IN  /\ Record("market._calculate_market_value", scenario,
                      Ok([market_adoption |-> adoption, green_premium |-> premium,
                          market_value |-> market_value]))
            /\ UNCHANGED <<start_year, end_year, carbon_model, steel_model, cement_model,
                           market_model>>

\* the sub-scenarios the market model derives, and what its sub-models compute from
\* them first: the EU price path, the steel cost table and the cement cost table
DeriveSubScenarios ==
    \E scenario \in ValueScenarios \cup MarketScenarios \cup {OtherConfig} :
        LET carbon_scenario == CarbonScenarioOf(scenario)
            steel_scenario == SteelScenarioOf(scenario)
            cement_scenario == CementScenarioOf(scenario)
        IN  /\ Record("market._run_simulations", scenario,
                      Ok([carbon_scenario |-> carbon_scenario,
                          steel_scenario |-> steel_scenario,
                          cement_scenario |-> cement_scenario,
                          eu_ets |-> Carbon_calculate_eu_prices(market_model.carbon_model,
                                                                carbon_scenario),
                          steel_costs |-> Steel_calculate_cost_evolution(
                                              market_model.steel_model, steel_scenario),
                          cement_costs |-> Cement_calculate_cost_evolution(
                                               market_model.cement_model, cement_scenario),
                          steel_industry |->
                              Market_run_steel_simulation(market_model, scenario).out,
                          cement_industry |->
                              Market_run_cement_simulation(market_model, scenario).out]))
            /\ UNCHANGED <<start_year, end_year, carbon_model, steel_model, cement_model,
                           market_model>>

\* the MarketScenario run_simulation builds from its configuration
BuildScenario ==
    \E scenario_config \in ScenarioConfigs :
        /\ Record("run_simulation.scenario", scenario_config,
                  Ok(ScenarioOfConfig(scenario_config)))
        /\ UNCHANGED <<start_year, end_year, carbon_model, steel_model, cement_model,
                       market_model>>

\* the names and the first-year shares of two technologies a caller puts in place of
\* the three of the steel model
TwoTechnologyNames == <<"A", "B">>

TwoTechnologyMixes ==
    {<<Dec(70, 100), Dec(30, 100)>>, <<Dec(90, 100), Dec(10, 100)>>,
     <<Dec(20, 100), Dec(60, 100)>>}

\* a steel model whose technology table holds two technologies of equal base cost and
\* zero learning rate
TwoTechnologySteelModel(start, end, mix) ==
    [SteelIndustryModel(start, end) EXCEPT
        !.tech_names = TwoTechnologyNames,
        !.technologies =
            [t \in Range(TwoTechnologyNames) |->
                [capex_base |-> Num(800), opex_base |-> Num(400),
                 carbon_intensity |-> Dec(18, 10), learning_rate |-> 0]],
        !.initial_mix =
            [t \in Range(TwoTechnologyNames) |-> IF t = "A" THEN mix[1] ELSE mix[2]]]

\* the cost table and the adoption table of the steel model with two technologies
TwoTechnologyAdoption ==
    \E scenario \in SteelScenarios, mix \in TwoTechnologyMixes :
        LET self == TwoTechnologySteelModel(start_year, end_year, mix)
            costs == Steel_calculate_cost_evolution(self, scenario)
        IN  /\ Record("steel._calculate_technology_adoption",
                      [scenario |-> scenario, initial_mix |-> mix],
                      Ok([costs |-> costs,
                          technology_mix |->
                              Steel_calculate_technology_adoption(self, scenario, costs)]))
            /\ UNCHANGED <<start_year, end_year, carbon_model, steel_model, cement_model,
                           market_model>>

\* the scenarios of the calls that run side by side
InterleavedScenarios ==
    {s \in SteelScenarios : /\ s.carbon_price_start = Num(80)
                            /\ s.hydrogen_cost_start = Num(4)
                            /\ s.technology_adoption_rate \in {Dec(5, 100), Dec(50, 100)}
                            /\ s.name = "Steel"
                            /\ s.scrap_availability_growth = Dec(3, 100)}

\* a steel model instance: the one of the caller or the one the market model made
InstanceOf(name) == IF name = "steel_model" THEN steel_model ELSE market_model.steel_model

\* the tables a call holds in its local variables
RunIds(run) == {run.costs, run.adoption, run.production, run.emissions} \ {0}

\* a variant in which every table is one and the same object
NewTable_reused(h) == 1

\* pd.DataFrame(index=self.years): a new object, none of those that are alive
NewTable(h) == CHOOSE id \in 1..(2 * 4) : id \notin DOMAIN h /\ \A j \in 1..(id - 1) : j \in DOMAIN h

\* the heap with a table stored under an identity
Store(h, id, table) == [i \in DOMAIN h \cup {id} |-> IF i = id THEN table ELSE h[i]]

\* a call begins: self and scenario are bound
StartRun(t) ==
    /\ runs[t].pc = "idle"
    /\ \E name \in {"steel_model", "market_model.steel_model"}, scenario \in InterleavedScenarios :
          runs' = [runs EXCEPT ![t] = [IdleRun EXCEPT !.pc = "costs", !.model = name,
                                                      !.scenario = scenario]]
    /\ UNCHANGED <<start_year, end_year, carbon_model, steel_model, cement_model,
                   market_model, call, prev_out, heap>>

\* costs = self._calculate_cost_evolution(scenario)
StepCosts(t) ==
    /\ runs[t].pc = "costs"
    /\ LET id == NewTable(heap)
       IN  /\ heap' = Store(heap, id,
                          Steel_calculate_cost_evolution(InstanceOf(runs[t].model),
                                                         runs[t].scenario))
           /\ runs' = [runs EXCEPT ![t].pc = "adoption", ![t].costs = id]
    /\ UNCHANGED <<start_year, end_year, carbon_model, steel_model, cement_model,
                   market_model, call, prev_out>>

\* adoption = self._calculate_technology_adoption(scenario, costs)
StepAdoption(t) ==
    /\ runs[t].pc = "adoption"
    /\ LET id == NewTable(heap)
       IN  /\ heap' = Store(heap, id,
                          Steel_calculate_technology_adoption(InstanceOf(runs[t].model),
                              runs[t].scenario, heap[runs[t].costs]))
           /\ runs' = [runs EXCEPT ![t].pc = "production", ![t].adoption = id]
    /\ UNCHANGED <<start_year, end_year, carbon_model, steel_model, cement_model,
                   market_model, call, prev_out>>

\* production = self._calculate_production_evolution(adoption)
StepProduction(t) ==
    /\ runs[t].pc = "production"
    /\ LET id == NewTable(heap)
       IN  /\ heap' = Store(heap, id,
                          Steel_calculate_production_evolution(InstanceOf(runs[t].model),
                              heap[runs[t].adoption]))
           /\ runs' = [runs EXCEPT ![t].pc = "emissions", ![t].production = id]
    /\ UNCHANGED <<start_year, end_year, carbon_model, steel_model, cement_model,
                   market_model, call, prev_out>>

\* emissions = self._calculate_emissions(production, adoption)
StepEmissions(t) ==
    /\ runs[t].pc = "emissions"
    /\ LET id == NewTable(heap)
       IN  /\ heap' = Store(heap, id,
                          Steel_calculate_emissions(InstanceOf(runs[t].model),
                              heap[runs[t].production], heap[runs[t].adoption]))
           /\ runs' = [runs EXCEPT ![t].pc = "return", ![t].emissions = id]
    /\ UNCHANGED <<start_year, end_year, carbon_model, steel_model, cement_model,
                   market_model, call, prev_out>>

\* return {'costs': costs, 'technology_mix': adoption, ...}: the caller holds the tables
ReturnRun(t) ==
    /\ runs[t].pc = "return"
    /\ runs' = [runs EXCEPT ![t].pc = "done"]
    /\ UNCHANGED <<start_year, end_year, carbon_model, steel_model, cement_model,
                   market_model, call, prev_out, heap>>

\* the caller writes a cell of the technology_mix table a call has returned to it
WriteResult(t) ==
    /\ runs[t].pc = "done"
    /\ ~runs[t].written
    /\ heap' = [heap EXCEPT ![runs[t].adoption] = SetLoc(@, start_year, "BF-BOF", 0)]
    /\ runs' = [runs EXCEPT ![t].written = TRUE]
    /\ UNCHANGED <<start_year, end_year, carbon_model, steel_model, cement_model,
                   market_model, call, prev_out>>

\* one step of one of the calls that run side by side
InterleavedStep ==
    \E t \in Runs :
        \/ StartRun(t)
        \/ StepCosts(t)
        \/ StepAdoption(t)
        \/ StepProduction(t)
        \/ StepEmissions(t)
        \/ ReturnRun(t)
        \/ WriteResult(t)

\* the results mapping run_simulation merges, from the tables the models compute for a
\* scenario
ResultsOf(scenario) ==
    LET adoption == Market_calculate_market_adoption(market_model, scenario)
        premium == Market_calculate_green_premium(market_model, scenario)
        steel == Steel_simulate_scenario(steel_model, SteelScenarioOf(scenario)).out.value
        cement == Cement_simulate_scenario(cement_model, CementScenarioOf(scenario)).out.value
    IN  [market_adoption |-> Frame(adoption),
         market_value |-> Frame(Market_calculate_market_value(market_model, adoption, premium)),
         steel_industry |-> Dict([k \in DOMAIN steel |-> Frame(steel[k])]),
         cement_industry |-> Dict([k \in DOMAIN cement |-> Frame(cement[k])])]

\* save_results on a results mapping, fresh or saved once before
SaveResults ==
    \E scenario \in MarketScenarios, saved \in BOOLEAN :
        LET results == IF saved THEN save_results(ResultsOf(scenario)).results
                       ELSE ResultsOf(scenario)
        IN  /\ Record("save_results", results, Ok(save_results(results)))
            /\ UNCHANGED <<start_year, end_year, carbon_model, steel_model, cement_model,
                           market_model>>

RunSimulation ==
    \E scenario_config \in ScenarioConfigs :
        /\ Record("run_simulation", scenario_config, run_simulation(scenario_config))
        /\ UNCHANGED <<start_year, end_year, carbon_model, steel_model, cement_model,
                       market_model>>

Next ==
    \/ CalculatePrices
    \/ CalculateCbamImpact
    \/ CarbonSimulate
    \/ SteelSimulate
    \/ CementSimulate
    \/ CalculateMarketAdoption
    \/ MarketSimulate
    \/ RunSimulation
    \/ CalculateMarketTables
    \/ DeriveSubScenarios
    \/ BuildScenario
    \/ TwoTechnologyAdoption
    \/ CalculateTradeShifts
    \/ InterleavedStep
    \/ SaveResults
    \/ CalculateMarketEvolution

Spec == Init /\ [][Next]_vars

\* the carbon model alone
NextCarbon ==
    \/ CalculatePrices
    \/ CalculateCbamImpact
    \/ CarbonSimulate
    \/ CalculateTradeShifts

SpecCarbon == Init /\ [][NextCarbon]_vars

\* the steel and cement models alone
NextIndustry == SteelSimulate \/ CementSimulate

SpecIndustry == Init /\ [][NextIndustry]_vars

\* the market model and run_simulation alone
NextMarket == CalculateMarketAdoption \/ MarketSimulate \/ RunSimulation

SpecMarket == Init /\ [][NextMarket]_vars

\* simulate_scenario of the four models
NextSimulate == CarbonSimulate \/ SteelSimulate \/ CementSimulate \/ MarketSimulate

SpecSimulate == Init /\ [][NextSimulate]_vars

\* the adoption, premium and value tables of the market model
SpecValue == Init /\ [][CalculateMarketTables]_vars

\* the scenario run_simulation builds and the sub-scenarios the market model derives
NextScenario == BuildScenario \/ DeriveSubScenarios

SpecScenario == Init /\ [][NextScenario]_vars

\* the adoption of a steel model with two technologies
SpecTwoTechnology == Init /\ [][TwoTechnologyAdoption]_vars

\* two calls of the steel model's simulate_scenario, interleaved statement by statement
SpecInterleaved == Init /\ [][InterleavedStep]_vars

\* save_results alone
SpecSave == Init /\ [][SaveResults]_vars

\* the market_evolution table of the carbon model alone
SpecEvolution == Init /\ [][CalculateMarketEvolution]_vars

\* the steel and cement models, called by a caller or through the market model
SpecFields == Init /\ [][SteelSimulate \/ CementSimulate \/ DeriveSubScenarios]_vars

(***************************************************************************)
(* Properties.                                                             *)
(***************************************************************************)
\* the year range the models were constructed with
YearIndex == Arange(start_year, end_year)

Called(op) == call.op = op

\* a CarbonPriceScenario that is valid: positive base prices, growth rates above -1
ValidCarbonScenario(s) ==
    /\ s.eu_ets_base > 0 /\ s.us_carbon_price_start > 0
    /\ s.eu_ets_growth_rate > Neg(One) /\ s.us_carbon_price_growth > Neg(One)
    /\ s.asian_market_adoption_rate > Neg(One) /\ s.global_south_adoption_rate > Neg(One)

\* C1: for every valid CarbonPriceScenario and every year range with
\* start_year <= end_year, CarbonPricingModel.simulate_scenario returns, without
\* raising, the four tables carbon_prices, trade_flows, cbam_impact and
\* market_evolution; and every column _calculate_trade_shifts reads from the
\* cbam_impact table is a column _calculate_cbam_impact created.
C1_SimulateReturnsFourTables ==
    /\ (Called("carbon.simulate_scenario") /\ ValidCarbonScenario(call.arg)
            /\ start_year <= end_year)
        => /\ IsOk(call.out)
           /\ DOMAIN call.out.value =
                {"carbon_prices", "trade_flows", "cbam_impact", "market_evolution"}
    /\ Called("carbon._calculate_cbam_impact")
        => {"Asia_cbam_charge", "Global_South_cbam_charge"}
              \subseteq Range(call.out.value.columns)

\* the base price and the growth rate the claim names for a region
ClaimedBase(s, region) ==
    CASE region = "EU" -> s.eu_ets_base
      [] region = "US" -> s.us_carbon_price_start
      [] region = "Asia" -> Dec(300, 10)
      [] OTHER -> Dec(150, 10)

ClaimedGrowth(s, region) ==
    CASE region = "EU" -> s.eu_ets_growth_rate
      [] region = "US" -> s.us_carbon_price_growth
      [] region = "Asia" -> s.asian_market_adoption_rate
      [] OTHER -> s.global_south_adoption_rate

\* the sequence 80.0, 86.4, 93.312, as far as the range has years
ExamplePrices == <<Dec(80000, 1000), Dec(86400, 1000), Dec(93312, 1000)>>

\* C3: the price of every region in every year y is base * (1 + growth)^(y - start_year),
\* with base and growth from the scenario for EU and US and the fixed bases 30.0 and
\* 15.0 with the adoption rates as growth for Asia and Global South; and
\* eu_ets_base = 80.0 with eu_ets_growth_rate = 0.08 gives 80.0, 86.4, 93.312.
C3_GeometricPrices ==
    Called("carbon._calculate_prices") =>
        LET s == call.arg.scenario
            region == call.arg.region
            prices == call.out.value
        IN  /\ DOMAIN prices = DOMAIN YearIndex
            /\ \A i \in DOMAIN YearIndex :
                  prices[i] = Mul(ClaimedBase(s, region),
                                  Pow(One + ClaimedGrowth(s, region),
                                      YearIndex[i] - start_year))
            /\ (region = "EU" /\ s.eu_ets_base = Num(80)
                    /\ s.eu_ets_growth_rate = Dec(8, 100))
                => \A i \in DOMAIN YearIndex : i <= 3 => prices[i] = ExamplePrices[i]

C3_Witness ==
    /\ Called("carbon._calculate_prices")
    /\ call.arg.region = "EU"
    /\ start_year = 2025 /\ end_year = 2027
    /\ call.out.value = ExamplePrices

\* the carbon intensities of the regions, as the claim's intensity difference needs them
ClaimedIntensityDiff(region) ==
    IF region = "Asia" THEN Dec(23, 10) - Dec(18, 10) ELSE Dec(25, 10) - Dec(18, 10)

Max0(a) == IF a > 0 THEN a ELSE 0

\* C9: for Asia and Global South and every year y the CBAM charge is 0 when
\* y < cbam_implementation_year and max(0, region_intensity - EU_intensity) * eu_price(y)
\* otherwise; so it is 0 in every year when the implementation year lies after
\* end_year, and applied in every year when it lies at or before start_year.
C9_CbamStep ==
    Called("carbon._calculate_cbam_impact") =>
        LET s == call.arg.scenario
            eu == call.arg.eu_prices
            impact == call.out.value
            applied(region, i) == Mul(Max0(ClaimedIntensityDiff(region)), eu[i])
        IN  \A region \in {"Asia", "Global South"} :
                LET charge == impact.data[region \o "_cbam_charge"]
                IN  /\ DOMAIN charge = DOMAIN YearIndex
                    /\ \A i \in DOMAIN YearIndex :
                          charge[i] = IF YearIndex[i] < s.cbam_implementation_year
                                      THEN 0 ELSE applied(region, i)
                    /\ s.cbam_implementation_year > end_year
                        => \A i \in DOMAIN YearIndex : charge[i] = 0
                    /\ s.cbam_implementation_year <= start_year
                        => \A i \in DOMAIN YearIndex : charge[i] = applied(region, i)

\* a range in which the charge starts: nothing in 2025 and 2026, charged in 2027
C9_Witness ==
    /\ Called("carbon._calculate_cbam_impact")
    /\ call.arg.scenario.cbam_implementation_year = 2027
    /\ end_year >= 2027
    /\ call.out.value.data["Asia_cbam_charge"][1] = 0
    /\ call.out.value.data["Asia_cbam_charge"][2] = 0
    /\ call.out.value.data["Asia_cbam_charge"][3] > 0
    /\ call.out.value.data["Global South_cbam_charge"][3]
          > call.out.value.data["Asia_cbam_charge"][3]

\* C2: run_simulation called with a configuration mapping that omits any subset of
\* the scenario keys, the empty mapping included, completes without raising and
\* returns a results bundle.
C2_RunSimulationTotal ==
    Called("run_simulation") =>
        /\ IsOk(call.out)
        /\ {"market_adoption", "market_value", "steel_industry", "cement_industry"}
              \subseteq DOMAIN call.out.value

\* the two industry projectors, the names of their technologies and the base mix the
\* claim gives for them
IndustryOps == {"steel.simulate_scenario", "cement.simulate_scenario"}

ClaimedTechNames(op) ==
    IF op = "steel.simulate_scenario" THEN <<"BF-BOF", "EAF", "H2-DRI">>
    ELSE <<"Conventional", "Efficient", "Alternative">>

ClaimedBaseMix(op) ==
    IF op = "steel.simulate_scenario" THEN <<Dec(70, 100), Dec(25, 100), Dec(5, 100)>>
    ELSE <<Dec(60, 100), Dec(35, 100), Dec(5, 100)>>

\* the cost of the k-th technology in the i-th year, and the sum over the technologies
CostOf(op, costs, k, i) == costs.data[ClaimedTechNames(op)[k] \o "_total_cost"][i]

CostSum(op, costs, i) ==
    Add(Add(CostOf(op, costs, 1, i), CostOf(op, costs, 2, i)), CostOf(op, costs, 3, i))

\* C4: in the steel and the cement projector the adoption share of each technology in
\* the first year is its base mix (steel 0.70/0.25/0.05, cement 0.60/0.35/0.05), and in
\* every later year y it is share(y-1) * (1 - technology_adoption_rate)
\* + (1 - cost_share(y)) * technology_adoption_rate, with cost_share(y) the cost of the
\* technology in year y divided by the sum of the costs of all technologies in year y.
C4_AdoptionRecurrence ==
    \A op \in IndustryOps :
        Called(op) =>
            LET mix == call.out.value.technology_mix
                costs == call.out.value.costs
                rate == call.arg.technology_adoption_rate
            IN  /\ mix.columns = ClaimedTechNames(op)
                /\ \A k \in 1..3 :
                      LET share == mix.data[ClaimedTechNames(op)[k]]
                          cost_share(i) == Div(CostOf(op, costs, k, i), CostSum(op, costs, i))
                      IN  /\ share[1] = ClaimedBaseMix(op)[k]
                          /\ \A i \in 2..Len(YearIndex) :
                                share[i] = Add(Mul(share[i - 1], Sub(One, rate)),
                                               Mul(Sub(One, cost_share(i)), rate))

\* a steel run over several years in which the cheap technologies gain on the base mix
C4_Witness ==
    /\ Called("steel.simulate_scenario")
    /\ end_year >= start_year + 2
    /\ call.arg.technology_adoption_rate = Dec(5, 100)
    /\ LET mix == call.out.value.technology_mix.data
       IN  /\ mix["BF-BOF"][1] = Dec(70, 100)
           /\ mix["BF-BOF"][3] < mix["BF-BOF"][2]
           /\ mix["BF-BOF"][2] < mix["BF-BOF"][1]
           /\ mix["H2-DRI"][3] > mix["H2-DRI"][2]

\* an industry scenario that is valid: every rate above -1, every base cost positive
ValidIndustryScenario(op, s) ==
    /\ s.carbon_price_start > 0 /\ s.electricity_cost_start > 0
    /\ s.carbon_price_growth > Neg(One) /\ s.electricity_cost_growth > Neg(One)
    /\ s.technology_adoption_rate > Neg(One)
    /\ IF op = "steel.simulate_scenario"
       THEN /\ s.hydrogen_cost_start > 0 /\ s.hydrogen_cost_growth > Neg(One)
            /\ s.scrap_availability_growth > Neg(One)
       ELSE /\ s.alternative_fuel_cost_start > 0 /\ s.alternative_fuel_cost_growth > Neg(One)
            /\ s.clinker_substitution_rate > Neg(One)

\* every value of the technology_mix table lies in [0,1]
SharesInUnitInterval(op) ==
    \A k \in 1..3 : \A i \in DOMAIN YearIndex :
        LET share == call.out.value.technology_mix.data[ClaimedTechNames(op)[k]][i]
        IN  0 <= share /\ share <= One

\* C5 as stated: for every SteelScenario and CementScenario with every rate parameter,
\* technology_adoption_rate included, above -1 and every base cost above 0, the
\* technology_mix table holds a value in [0,1] for every technology in every year.
C5_Original ==
    \A op \in IndustryOps :
        (Called(op) /\ ValidIndustryScenario(op, call.arg)) => SharesInUnitInterval(op)

\* C5: for every valid SteelScenario and CementScenario whose technology_adoption_rate
\* lies in [0,1], the technology_mix table holds a value in [0,1] for every technology
\* in every year.
C5_SharesBoundedForUnitRate ==
    \A op \in IndustryOps :
        (/\ Called(op)
         /\ ValidIndustryScenario(op, call.arg)
         /\ 0 <= call.arg.technology_adoption_rate
         /\ call.arg.technology_adoption_rate <= One) => SharesInUnitInterval(op)

\* the largest rate of the interval: the share of a later year is 1 - cost_share
C5_Witness ==
    /\ Called("cement.simulate_scenario")
    /\ call.arg.technology_adoption_rate = One
    /\ end_year > start_year
    /\ LET mix == call.out.value.technology_mix.data
       IN  /\ mix["Alternative"][1] = Dec(5, 100)
           /\ mix["Alternative"][2] > Dec(50, 100)
           /\ mix["Alternative"][2] < One

\* the table of the segment adoption a call has returned
AdoptionOf(segment) == call.out.value.data[segment]

\* a MarketScenario that is valid: every rate parameter above -1
ValidMarketScenario(s) == \A k \in ConfigKeys \ {"name"} : s[k] > Neg(One)

MonotoneInUnitInterval ==
    \A segment \in Range(SegmentNames) :
        /\ \A i \in DOMAIN YearIndex : 0 <= AdoptionOf(segment)[i] /\ AdoptionOf(segment)[i] <= One
        /\ \A i \in 2..Len(YearIndex) : AdoptionOf(segment)[i] >= AdoptionOf(segment)[i - 1]

\* C6 as stated: for every MarketScenario with every rate parameter, customer_adoption_rate
\* and regulatory_pressure_growth included, above -1, the adoption of every customer
\* segment is non-decreasing over the years and lies in [0,1].
C6_Original ==
    (Called("market._calculate_market_adoption") /\ ValidMarketScenario(call.arg))
        => MonotoneInUnitInterval

\* C6: for every valid MarketScenario whose customer_adoption_rate is not negative, the
\* adoption of every customer segment is non-decreasing over the years and lies in [0,1].
C6_MonotoneForNonNegativeRate ==
    (/\ Called("market._calculate_market_adoption")
     /\ ValidMarketScenario(call.arg)
     /\ call.arg.customer_adoption_rate >= 0) => MonotoneInUnitInterval

\* a segment that climbs from 0.05 year by year, and one that is held at 1
C6_Witness ==
    /\ Called("market._calculate_market_adoption")
    /\ call.arg.customer_adoption_rate = Dec(8, 100)
    /\ call.arg.regulatory_pressure_growth = Dec(10, 100)
    /\ end_year >= start_year + 2
    /\ AdoptionOf("Residential Construction")[1] = Dec(5, 100)
    /\ AdoptionOf("Residential Construction")[2] > AdoptionOf("Residential Construction")[1]
    /\ AdoptionOf("Residential Construction")[3] > AdoptionOf("Residential Construction")[2]
    /\ AdoptionOf("Residential Construction")[3] < One
    /\ AdoptionOf("Public Infrastructure")[2] = One
    /\ AdoptionOf("Public Infrastructure")[3] = One

SimulateOps ==
    {"carbon.simulate_scenario", "steel.simulate_scenario", "cement.simulate_scenario",
     "market.simulate_scenario"}

\* the tables a projector is to return
ClaimedTables(op) ==
    CASE op = "carbon.simulate_scenario" ->
            {"carbon_prices", "trade_flows", "cbam_impact", "market_evolution"}
      [] op = "market.simulate_scenario" ->
            {"market_adoption", "green_premium", "market_value"}
      [] OTHER -> {"costs", "technology_mix", "production", "emissions"}

\* C8: every output table of every projector (carbon_prices, trade_flows, cbam_impact,
\* market_evolution, costs, technology_mix, production, emissions, market_adoption,
\* green_premium, market_value) is indexed by exactly the years start_year..end_year,
\* one row per year in ascending order.
C8_TablesIndexedByYears ==
    \A op \in SimulateOps :
        Called(op) =>
            /\ IsOk(call.out)
            /\ \A t \in ClaimedTables(op) :
                  /\ t \in DOMAIN call.out.value
                  /\ call.out.value[t].index = YearIndex

\* C10 as stated: the adoption of every customer segment is 0.05 in the first year and
\* min(1, adoption(y-1) + regulatory_driver(y) * customer_adoption_rate) in every later
\* year y, with regulatory_driver(y) = regulatory_sensitivity(segment)
\* * (1 + regulatory_pressure_growth)^(y - start_year).
C10_Original ==
    Called("market._calculate_market_adoption") =>
        \A segment \in Range(SegmentNames) :
            LET sensitivity == market_model.customer_segments[segment].regulatory_sensitivity
                regulatory_driver(i) ==
                    Mul(sensitivity,
                        Pow(Add(One, call.arg.regulatory_pressure_growth),
                            YearIndex[i] - start_year))
            IN  /\ AdoptionOf(segment)[1] = Dec(5, 100)
                /\ \A i \in 2..Len(YearIndex) :
                      AdoptionOf(segment)[i] =
                          PyMin(One, Add(AdoptionOf(segment)[i - 1],
                                         Mul(regulatory_driver(i),
                                             call.arg.customer_adoption_rate)))

\* C10: the adoption of every customer segment is 0.05 in the first year and
\* min(1, adoption(y-1) + (1 - adoption(y-1)) * (regulatory_driver(y) + customer_adoption_rate))
\* in every later year y, with regulatory_driver(y) = regulatory_sensitivity(segment)
\* * (1 + regulatory_pressure_growth)^(y - start_year).
C10_SaturatingAdoption ==
    Called("market._calculate_market_adoption") =>
        \A segment \in Range(SegmentNames) :
            LET sensitivity == market_model.customer_segments[segment].regulatory_sensitivity
                regulatory_driver(i) ==
                    Mul(sensitivity,
                        Pow(Add(One, call.arg.regulatory_pressure_growth),
                            YearIndex[i] - start_year))
                remaining(i) == Sub(One, AdoptionOf(segment)[i - 1])
            IN  /\ AdoptionOf(segment)[1] = Dec(5, 100)
                /\ \A i \in 2..Len(YearIndex) :
                      AdoptionOf(segment)[i] =
                          PyMin(One, Add(AdoptionOf(segment)[i - 1],
                                         Mul(remaining(i),
                                             Add(regulatory_driver(i),
                                                 call.arg.customer_adoption_rate))))

\* the default rates: 0.05 + 0.95 * (0.5 * 1.1 + 0.08) = 0.6485 for the residential
\* segment in the second year, and the public segment cut off at 1
C10_Witness ==
    /\ Called("market._calculate_market_adoption")
    /\ call.arg.customer_adoption_rate = Dec(8, 100)
    /\ call.arg.regulatory_pressure_growth = Dec(10, 100)
    /\ end_year > start_year
    /\ AdoptionOf("Residential Construction")[2] = Dec(6485, 10000)
    /\ AdoptionOf("Public Infrastructure")[2] = One

\* the share of the market and the willingness to pay a premium the segments have
ClaimedShare(segment) ==
    CASE segment = "Public Infrastructure" -> Dec(25, 100)
      [] segment = "Commercial Construction" -> Dec(35, 100)
      [] OTHER -> Dec(20, 100)

ClaimedWillingness(segment) ==
    CASE segment = "Public Infrastructure" -> Dec(15, 100)
      [] segment = "Commercial Construction" -> Dec(10, 100)
      [] segment = "Residential Construction" -> Dec(5, 100)
      [] OTHER -> Dec(8, 100)

\* C11: for every customer segment and year y, market_value(y) = total_market(y)
\* * segment_share * (1 + premium(y)) with total_market(y) = 1000 * 1.03^(y - start_year),
\* and premium(y) = green_premium_start * (1 + green_premium_growth)^(y - start_year)
\* * green_premium_willingness(segment) is the value of the green_premium table.
C11_MarketValue ==
    Called("market._calculate_market_value") =>
        \A segment \in Range(SegmentNames) : \A i \in DOMAIN YearIndex :
            LET years == YearIndex[i] - start_year
                total_market == Mul(Num(1000), Pow(Dec(103, 100), years))
                premium == Mul(Mul(call.arg.green_premium_start,
                                   Pow(Add(One, call.arg.green_premium_growth), years)),
                               ClaimedWillingness(segment))
            IN  /\ call.out.value.green_premium.data[segment][i] = premium
                /\ call.out.value.market_value.data[segment][i] =
                      Mul(Mul(total_market, ClaimedShare(segment)), Add(One, premium))

\* the baseline premium: 1000 * 0.25 * (1 + 0.15 * 0.15) = 255.625 in the first year and
\* 1030 * 0.25 * (1 + 0.15 * 1.05 * 0.15) = 263.58... in the second
C11_Witness ==
    /\ Called("market._calculate_market_value")
    /\ call.arg.green_premium_start = Dec(15, 100)
    /\ call.arg.green_premium_growth = Dec(5, 100)
    /\ end_year > start_year
    /\ call.out.value.green_premium.data["Public Infrastructure"][2] = Dec(236, 10000)
    /\ call.out.value.market_value.data["Public Infrastructure"][1] = Num(255) + Dec(625, 1000)
    /\ call.out.value.market_value.data["Public Infrastructure"][2] > Dec(2635, 10)
    /\ call.out.value.market_value.data["Public Infrastructure"][2] < Dec(2636, 10)

\* two market scenarios agree on the premium parameters
SamePremium(s, t) ==
    /\ s.green_premium_start = t.green_premium_start
    /\ s.green_premium_growth = t.green_premium_growth

\* C12: two MarketScenarios that agree on green_premium_start and green_premium_growth
\* but differ in customer_adoption_rate, regulatory_pressure_growth, the carbon price
\* parameters or the steel and cement cost parameters yield identical market_value
\* tables: whenever the market tables are computed for one scenario after another with
\* the same premium parameters, the market_value table is the same as before.
C12_ValueIndependentOfPathway ==
    [][(/\ call.op = "market._calculate_market_value"
        /\ call'.op = "market._calculate_market_value"
        /\ SamePremium(call.arg, call'.arg))
       => call'.out.value.market_value = call.out.value.market_value]_vars

\* a scenario off the baseline in its adoption rate, carbon price and hydrogen cost:
\* another adoption table, and the market_value table of the baseline
C12_Witness ==
    /\ Called("market._calculate_market_value")
    /\ end_year > start_year
    /\ SamePremium(call.arg, BaselineConfig)
    /\ call.arg.customer_adoption_rate # BaselineConfig.customer_adoption_rate
    /\ call.arg.carbon_price_start # BaselineConfig.carbon_price_start
    /\ call.arg.steel_hydrogen_cost_start # BaselineConfig.steel_hydrogen_cost_start
    /\ call.out.value.market_adoption #
          Market_calculate_market_adoption(market_model, BaselineConfig)
    /\ call.out.value.market_value =
          Market_calculate_market_value(market_model,
              Market_calculate_market_adoption(market_model, BaselineConfig),
              Market_calculate_green_premium(market_model, BaselineConfig))

\* the model instance an industry projector runs on, and its technologies
ModelOf(op) == IF op = "steel.simulate_scenario" THEN steel_model ELSE cement_model

TechOf(op, k) == ModelOf(op).technologies[ClaimedTechNames(op)[k]]

\* start * (1 + growth)^n
Path(start, growth, n) == Mul(start, Pow(Add(One, growth), n))

\* the energy cost of the k-th technology n years after the first, as the claim gives it
ClaimedEnergyCost(op, s, k, n) ==
    IF op = "steel.simulate_scenario"
    THEN CASE k = 3 -> Mul(Num(50), Path(s.hydrogen_cost_start, s.hydrogen_cost_growth, n))
           [] k = 2 -> Mul(Dec(5, 10), Path(s.electricity_cost_start, s.electricity_cost_growth, n))
           [] OTHER -> Mul(Dec(2, 10), Path(s.electricity_cost_start, s.electricity_cost_growth, n))
    ELSE LET share == TechOf(op, k).alternative_fuel_share
         IN  Add(Mul(Mul(Sub(One, share), Dec(1, 10)),
                     Path(s.electricity_cost_start, s.electricity_cost_growth, n)),
                 Mul(Mul(share, Dec(2, 10)),
                     Path(s.alternative_fuel_cost_start, s.alternative_fuel_cost_growth, n)))

\* C13: for every technology and year y, total cost(y) = capex_base * (1 - learning_rate)^(y - start)
\* + opex_base * (1 - learning_rate)^(y - start) + carbon_intensity * carbon_price(y)
\* + energy_cost(y) with carbon_price(y) = carbon_price_start * (1 + carbon_price_growth)^(y - start);
\* the steel energy cost is 50 * hydrogen_cost(y) for H2-DRI, 0.5 * electricity_cost(y) for
\* EAF and 0.2 * electricity_cost(y) for BF-BOF; the cement energy cost is
\* (1 - alternative_fuel_share) * 0.1 * electricity_cost(y)
\* + alternative_fuel_share * 0.2 * alternative_fuel_cost(y).
C13_TotalCost ==
    \A op \in IndustryOps :
        Called(op) =>
            \A k \in 1..3 : \A i \in DOMAIN YearIndex :
                LET n == YearIndex[i] - start_year
                    tech == TechOf(op, k)
                    decay == Pow(Sub(One, tech.learning_rate), n)
                    carbon_price == Path(call.arg.carbon_price_start,
                                         call.arg.carbon_price_growth, n)
                IN  CostOf(op, call.out.value.costs, k, i) =
                        Add(Add(Add(Mul(tech.capex_base, decay), Mul(tech.opex_base, decay)),
                                Mul(tech.carbon_intensity, carbon_price)),
                            ClaimedEnergyCost(op, call.arg, k, n))

\* steel at a carbon price of 80: 800 + 400 + 1.8 * 80 + 0.2 * 60 = 1356 for BF-BOF and
\* 1200 + 500 + 0.1 * 80 + 50 * 4 = 1908 for H2-DRI in the first year, less in the second
C13_Witness ==
    /\ Called("steel.simulate_scenario")
    /\ call.arg.carbon_price_start = Num(80)
    /\ end_year > start_year
    /\ CostOf("steel.simulate_scenario", call.out.value.costs, 1, 1) = Num(1356)
    /\ CostOf("steel.simulate_scenario", call.out.value.costs, 3, 1) = Num(1908)
    /\ CostOf("steel.simulate_scenario", call.out.value.costs, 3, 2) < Num(1908)
    /\ CostOf("steel.simulate_scenario", call.out.value.costs, 3, 2) > Num(1800)

\* the total output of an industry n years after the first
ClaimedTotalProduction(op, n) ==
    IF op = "steel.simulate_scenario" THEN Mul(Num(1900), Pow(Dec(102, 100), n))
    ELSE Mul(Num(4200), Pow(Dec(1015, 1000), n))

\* C14: the total output of an industry grows geometrically from its base volume at a
\* fixed annual rate (steel 1900 at 2%, cement 4200 at 1.5%), and for every technology
\* and year the production table holds total(y) * share(y), the share taken from the
\* technology_mix table of the same year and not renormalized.
C14_Production ==
    \A op \in IndustryOps :
        Called(op) =>
            \A k \in 1..3 : \A i \in DOMAIN YearIndex :
                call.out.value.production.data[ClaimedTechNames(op)[k]][i] =
                    Mul(ClaimedTotalProduction(op, YearIndex[i] - start_year),
                        call.out.value.technology_mix.data[ClaimedTechNames(op)[k]][i])

\* the sum of one row over the three technologies
TechSum(op, table, i) ==
    Add(Add(table.data[ClaimedTechNames(op)[1]][i], table.data[ClaimedTechNames(op)[2]][i]),
        table.data[ClaimedTechNames(op)[3]][i])

\* a steel run whose second-year shares do not add up to 1, and neither does the
\* production to the total output 1900 * 1.02 = 1938
C14_Witness ==
    /\ Called("steel.simulate_scenario")
    /\ call.arg.technology_adoption_rate = Dec(5, 100)
    /\ end_year > start_year
    /\ call.out.value.production.data["BF-BOF"][1] = Num(1330)
    /\ TechSum("steel.simulate_scenario", call.out.value.technology_mix, 2) > One
    /\ TechSum("steel.simulate_scenario", call.out.value.production, 2) > Num(1938)

\* the emissions the claim gives for the k-th technology in the i-th year
ClaimedEmissions(op, k, i) ==
    LET production == call.out.value.production.data[ClaimedTechNames(op)[k]][i]
    IN  IF op = "steel.simulate_scenario"
        THEN Mul(production, TechOf(op, k).carbon_intensity)
        ELSE Add(Mul(production, TechOf(op, k).carbon_intensity),
                 Mul(Mul(production, Dec(1, 10)),
                     Sub(One, TechOf(op, k).alternative_fuel_share)))

\* C15 as stated: for every technology and year, steel emissions = production(y)
\* * carbon_intensity and cement emissions = production(y) * carbon_intensity
\* + production(y) * 0.1 * (1 - alternative_fuel_share); in both projectors the total of a
\* year is the sum of the three technology columns of that year and of nothing else.
C15_Original ==
    \A op \in IndustryOps :
        Called(op) =>
            LET emissions == call.out.value.emissions
            IN  /\ emissions.columns = ClaimedTechNames(op) \o <<"total">>
                /\ \A i \in DOMAIN YearIndex :
                      /\ emissions.data["total"][i] = TechSum(op, emissions, i)
                      /\ \A k \in 1..3 :
                            emissions.data[ClaimedTechNames(op)[k]][i] = ClaimedEmissions(op, k, i)

\* a value that is NaN counts as nothing in a total
Present(a) == IF a = NaN THEN 0 ELSE a

\* C15: for every technology and year, steel emissions = production(y) * carbon_intensity
\* and cement emissions = production(y) * carbon_intensity
\* + production(y) * 0.1 * (1 - alternative_fuel_share); in both projectors the total of a
\* year is the sum of those of the three technology columns of that year that are not
\* NaN, and of nothing else.
C15_Emissions ==
    \A op \in IndustryOps :
        Called(op) =>
            LET emissions == call.out.value.emissions
                cell(k, i) == emissions.data[ClaimedTechNames(op)[k]][i]
            IN  /\ emissions.columns = ClaimedTechNames(op) \o <<"total">>
                /\ \A i \in DOMAIN YearIndex :
                      /\ emissions.data["total"][i] =
                            Add(Add(Present(cell(1, i)), Present(cell(2, i))),
                                Present(cell(3, i)))
                      /\ \A k \in 1..3 : cell(k, i) = ClaimedEmissions(op, k, i)

\* cement in its first year: 4200 * 0.6 * (0.85 + 0.1 * 0.9) = 2368.8 for the conventional
\* kiln, and a total above it
C15_Witness ==
    /\ Called("cement.simulate_scenario")
    /\ call.out.value.emissions.data["Conventional"][1] = Num(2368) + Dec(8, 10)
    /\ call.out.value.emissions.data["Alternative"][1] > 0
    /\ call.out.value.emissions.data["total"][1] > call.out.value.emissions.data["Conventional"][1]
    /\ call.out.value.emissions.data["total"][1] =
          TechSum("cement.simulate_scenario", call.out.value.emissions, 1)

\* C16: the carbon price parameters of the master scenario are reused in all three
\* sub-scenarios: for every MarketScenario and every year, the carbon price path inside
\* the steel cost table and inside the cement cost table is the EU price path (eu_ets) of
\* the carbon projector; and the hydrogen, electricity and alternative-fuel start values
\* and growth rates of the sub-scenarios are those of the master scenario.
C16_SubScenarios ==
    Called("market._run_simulations") =>
        LET master == call.arg
            steel == call.out.value.steel_scenario
            cement == call.out.value.cement_scenario
            eu_ets == call.out.value.eu_ets
            costs(op) == IF op = "steel.simulate_scenario" THEN call.out.value.steel_costs
                         ELSE call.out.value.cement_costs
            sub(op) == IF op = "steel.simulate_scenario" THEN steel ELSE cement
            tech(op, k) == (IF op = "steel.simulate_scenario" THEN market_model.steel_model
                            ELSE market_model.cement_model).technologies[ClaimedTechNames(op)[k]]
        IN  /\ steel.hydrogen_cost_start = master.steel_hydrogen_cost_start
            /\ steel.hydrogen_cost_growth = master.steel_hydrogen_cost_growth
            /\ steel.electricity_cost_start = master.steel_electricity_cost_start
            /\ steel.electricity_cost_growth = master.steel_electricity_cost_growth
            /\ cement.electricity_cost_start = master.cement_electricity_cost_start
            /\ cement.electricity_cost_growth = master.cement_electricity_cost_growth
            /\ cement.alternative_fuel_cost_start = master.cement_alternative_fuel_cost_start
            /\ cement.alternative_fuel_cost_growth = master.cement_alternative_fuel_cost_growth
            /\ \A i \in DOMAIN YearIndex :
                  LET n == YearIndex[i] - start_year
                  IN  /\ eu_ets[i] = Path(master.carbon_price_start, master.carbon_price_growth, n)
                      /\ eu_ets[i] = Path(steel.carbon_price_start, steel.carbon_price_growth, n)
                      /\ eu_ets[i] = Path(cement.carbon_price_start, cement.carbon_price_growth, n)
                      /\ \A op \in IndustryOps : \A k \in 1..3 :
                            LET decay == Pow(Sub(One, tech(op, k).learning_rate), n)
                            IN  CostOf(op, costs(op), k, i) =
                                    Add(Add(Add(Mul(tech(op, k).capex_base, decay),
                                                Mul(tech(op, k).opex_base, decay)),
                                            Mul(tech(op, k).carbon_intensity, eu_ets[i])),
                                        ClaimedEnergyCost(op, sub(op), k, n))

\* a master scenario off the defaults in every field: the price path 50, 54.5 in the
\* carbon projector, and 800 + 400 + 1.8 * 50 + 0.2 * 60.01 = 1302.002 for BF-BOF
C16_Witness ==
    /\ Called("market._run_simulations")
    /\ call.arg = OtherConfig
    /\ end_year > start_year
    /\ call.out.value.eu_ets[1] = Num(50)
    /\ call.out.value.eu_ets[2] = Dec(545, 10)
    /\ call.out.value.steel_scenario.carbon_price_start = Num(50)
    /\ call.out.value.cement_scenario.carbon_price_growth = Dec(9, 100)
    /\ call.out.value.steel_scenario.hydrogen_cost_start = Dec(401, 100)
    /\ CostOf("steel.simulate_scenario", call.out.value.steel_costs, 1, 1) = Num(1302) + Dec(2, 1000)

\* C17: for each of the 15 MarketScenario fields the scenario run_simulation builds
\* holds the value of the configuration when the key is present and the default
\* otherwise; the numeric defaults are, field by field, the values of the baseline
\* configuration main uses when no --config file is given, and the default name is
\* 'Custom'.
C17_ConfigDefaults ==
    Called("run_simulation.scenario") =>
        /\ DOMAIN call.out.value = DOMAIN BaselineConfig
        /\ Cardinality(DOMAIN call.out.value) = 15
        /\ \A k \in DOMAIN call.out.value :
              call.out.value[k] =
                  IF k \in DOMAIN call.arg THEN call.arg[k]
                  ELSE IF k = "name" THEN "Custom" ELSE BaselineConfig[k]

\* a configuration that holds the carbon price alone
C17_Witness ==
    /\ Called("run_simulation.scenario")
    /\ DOMAIN call.arg = {"carbon_price_start"}
    /\ call.arg.carbon_price_start = Num(50)
    /\ call.out.value.carbon_price_start = Num(50)
    /\ call.out.value.carbon_price_growth = Dec(8, 100)
    /\ call.out.value.regulatory_pressure_growth = Dec(10, 100)
    /\ call.out.value.name = "Custom"

\* the scenario objects handed to the models
ScenariosOf(op) ==
    CASE op = "carbon.simulate_scenario" -> CarbonScenarios
      [] op = "steel.simulate_scenario" -> SteelScenarios
      [] op = "cement.simulate_scenario" -> CementScenarios
      [] OTHER -> MarketScenarios

\* the static tables of an industry model have their values of the construction
IndustryStatic(model, made) ==
    /\ model.technologies = made.technologies
    /\ model.initial_mix = made.initial_mix
    /\ model.base_production = made.base_production
    /\ model.years = made.years

CarbonStatic(model, made) ==
    /\ model.base_prices = made.base_prices
    /\ model.carbon_intensity = made.carbon_intensity
    /\ model.base_trade_flows = made.base_trade_flows
    /\ model.regional_markets = made.regional_markets
    /\ model.years = made.years

\* C18: after any sequence of simulate_scenario calls on a steel, cement, carbon or
\* market model, every static table of the model (technologies, initial_mix,
\* base_production, base_prices, carbon_intensity, base_trade_flows, regional_markets,
\* customer_segments, initial_green_adoption, years), those of the sub-models of the
\* market model included, has the value it had after the construction, and the scenario
\* passed in is the scenario as it was built.
C18_InputsUnchanged ==
    /\ CarbonStatic(carbon_model, CarbonPricingModel(start_year, end_year))
    /\ IndustryStatic(steel_model, SteelIndustryModel(start_year, end_year))
    /\ IndustryStatic(cement_model, CementIndustryModel(start_year, end_year))
    /\ CarbonStatic(market_model.carbon_model, CarbonPricingModel(start_year, end_year))
    /\ IndustryStatic(market_model.steel_model, SteelIndustryModel(start_year, end_year))
    /\ IndustryStatic(market_model.cement_model, CementIndustryModel(start_year, end_year))
    /\ market_model.customer_segments
          = MarketTransformationModel(start_year, end_year).customer_segments
    /\ market_model.initial_green_adoption = Dec(5, 100)
    /\ market_model.years = YearIndex
    /\ \A op \in SimulateOps : Called(op) => call.arg \in ScenariosOf(op)

\* the cement model has run a scenario twice over several years
C18_Witness ==
    /\ Called("cement.simulate_scenario")
    /\ prev_out.status = "ok"
    /\ end_year > start_year
    /\ call.out.value.production.data["Conventional"][2] > 0
    /\ cement_model.base_production = Num(4200)
    /\ cement_model.initial_mix["Conventional"] = Dec(60, 100)

\* a lies between b and c, the ends included
Between(a, b, c) == (b <= a /\ a <= c) \/ (c <= a /\ a <= b)

\* C20: for every scenario with technology_adoption_rate in [0,1] and positive total
\* cost, for every technology and every year y after the first, share(y) lies between
\* share(y-1) and 1 - cost_share(y), the ends included, in the steel and the cement
\* projector.
C20_ConvexCombination ==
    \A op \in IndustryOps :
        (/\ Called(op)
         /\ 0 <= call.arg.technology_adoption_rate
         /\ call.arg.technology_adoption_rate <= One) =>
            \A k \in 1..3 : \A i \in 2..Len(YearIndex) :
                LET share == call.out.value.technology_mix.data[ClaimedTechNames(op)[k]]
                    costs == call.out.value.costs
                IN  CostSum(op, costs, i) > 0 =>
                        Between(share[i], share[i - 1],
                                Sub(One, Div(CostOf(op, costs, k, i), CostSum(op, costs, i))))

\* half of the way in one year: the share of BF-BOF falls from 0.70 to a value strictly
\* between 0.70 and 1 - cost_share, and the share of H2-DRI rises likewise
C20_Witness ==
    /\ Called("steel.simulate_scenario")
    /\ call.arg.technology_adoption_rate = Dec(50, 100)
    /\ end_year > start_year
    /\ LET mix == call.out.value.technology_mix.data
           costs == call.out.value.costs
           target(k) == Sub(One, Div(CostOf("steel.simulate_scenario", costs, k, 2),
                                     CostSum("steel.simulate_scenario", costs, 2)))
       IN  /\ target(1) < mix["BF-BOF"][2] /\ mix["BF-BOF"][2] < mix["BF-BOF"][1]
           /\ mix["H2-DRI"][1] < mix["H2-DRI"][2] /\ mix["H2-DRI"][2] < target(3)

\* some year from the second to the j-th has a total cost of zero
ZeroCostBy(op, j) == \E i \in 2..j : CostSum(op, call.out.value.costs, i) = 0

\* the values of the k-th technology in the j-th year of a table of the call
CellOf(op, table, k, j) == call.out.value[table].data[ClaimedTechNames(op)[k]][j]

\* share, production and emissions of every technology are NaN or infinite in year j
TechnologiesLost(op, j) ==
    \A k \in 1..3 :
        /\ ~IsFinite(CellOf(op, "technology_mix", k, j))
        /\ ~IsFinite(CellOf(op, "production", k, j))
        /\ ~IsFinite(CellOf(op, "emissions", k, j))

\* the emissions of all three technologies are NaN in year j
AllEmissionsNaN(op, j) == \A k \in 1..3 : CellOf(op, "emissions", k, j) = NaN

\* C21 as stated: when the total cost across technologies is zero in some year, the
\* adoption computation raises no error; the share written for that year is NaN or
\* infinite, and so are the share of that technology in every later year, its production
\* and emissions from that year on, and the emissions total from that year on; no
\* scenario is refused before the computation.
C21_Original ==
    \A op \in IndustryOps :
        Called(op) =>
            /\ IsOk(call.out)
            /\ \A j \in 2..Len(YearIndex) :
                  ZeroCostBy(op, j) =>
                      /\ TechnologiesLost(op, j)
                      /\ ~IsFinite(call.out.value.emissions.data["total"][j])

\* C21: when the total cost across technologies is zero in some year, the adoption
\* computation raises no error; the share of every technology is NaN or infinite in that
\* year and in every later year, and so are its production and its emissions; the
\* emissions total of such a year is NaN or infinite unless the emissions of all three
\* technologies are NaN, and then it is 0; no scenario is refused before the computation.
C21_ZeroCostPropagates ==
    \A op \in IndustryOps :
        Called(op) =>
            /\ IsOk(call.out)
            /\ \A j \in 2..Len(YearIndex) :
                  ZeroCostBy(op, j) =>
                      /\ TechnologiesLost(op, j)
                      /\ IF AllEmissionsNaN(op, j)
                         THEN call.out.value.emissions.data["total"][j] = 0
                         ELSE ~IsFinite(call.out.value.emissions.data["total"][j])

\* steel with a hydrogen price below zero and an adoption rate of 1: the costs of the
\* second year add up to zero, the shares of that year are infinite with a total that is
\* NaN, and the shares of the third year are NaN with a total of 0
C21_Witness ==
    /\ Called("steel.simulate_scenario")
    /\ call.arg.technology_adoption_rate = One
    /\ call.arg.hydrogen_cost_start < 0
    /\ end_year >= start_year + 2
    /\ IsOk(call.out)
    /\ CostSum("steel.simulate_scenario", call.out.value.costs, 2) = 0
    /\ CostSum("steel.simulate_scenario", call.out.value.costs, 3) # 0
    /\ CellOf("steel.simulate_scenario", "technology_mix", 1, 2) = NegInf
    /\ CellOf("steel.simulate_scenario", "technology_mix", 3, 2) = PosInf
    /\ call.out.value.emissions.data["total"][2] = NaN
    /\ CellOf("steel.simulate_scenario", "technology_mix", 1, 3) = NaN
    /\ CellOf("steel.simulate_scenario", "production", 1, 3) = NaN
    /\ call.out.value.emissions.data["total"][3] = 0

\* the distance of a share to one half
ToHalf(share) == Abs(share - Dec(5, 10))

\* two numbers agree to within one step of the number grid: each side of an equation
\* is computed with products that are rounded to the grid one by one
Near(a, b) == Abs(a - b) <= 1

\* C22: two technologies with equal cost in every year (equal base cost, zero learning
\* rate) have adoption shares that converge toward 0.5 each: with an adoption rate r in
\* (0,1), for each of the two technologies |share(y) - 0.5| = (1 - r) * |share(y-1) - 0.5|
\* in every year after the first (to the rounding of the arithmetic), so the distance to
\* 0.5 never increases and the two shares approach each other.
C22_EqualCostConvergence ==
    (/\ Called("steel._calculate_technology_adoption")
     /\ 0 < call.arg.scenario.technology_adoption_rate
     /\ call.arg.scenario.technology_adoption_rate < One) =>
        LET mix == call.out.value.technology_mix.data
            costs == call.out.value.costs.data
            r == call.arg.scenario.technology_adoption_rate
        IN  /\ costs["A_total_cost"] = costs["B_total_cost"]
            /\ \A i \in 2..Len(YearIndex) :
                  /\ \A t \in {"A", "B"} :
                        /\ Near(ToHalf(mix[t][i]), Mul(Sub(One, r), ToHalf(mix[t][i - 1])))
                        /\ ToHalf(mix[t][i]) <= ToHalf(mix[t][i - 1])
                  /\ Abs(mix["A"][i] - mix["B"][i]) <= Abs(mix["A"][i - 1] - mix["B"][i - 1])

\* half of the way every year: 0.70 and 0.30 become 0.60 and 0.40, then 0.55 and 0.45
C22_Witness ==
    /\ Called("steel._calculate_technology_adoption")
    /\ call.arg.scenario.technology_adoption_rate = Dec(50, 100)
    /\ call.arg.initial_mix = <<Dec(70, 100), Dec(30, 100)>>
    /\ end_year >= start_year + 2
    /\ call.out.value.costs.data["A_total_cost"][2] > 0
    /\ call.out.value.technology_mix.data["A"] [2] = Dec(60, 100)
    /\ call.out.value.technology_mix.data["B"] [2] = Dec(40, 100)
    /\ call.out.value.technology_mix.data["A"] [3] = Dec(55, 100)
    /\ call.out.value.technology_mix.data["B"] [3] = Dec(45, 100)

\* base * (1 - coefficient * (eu - other) / 100)
ClaimedShift(base, coefficient, eu, other) ==
    Mul(base, Sub(One, Div(Mul(coefficient, Sub(eu, other)), Num(100))))

\* C23: trade-flow shifts are linear in the price differentials and in the CBAM charge:
\* _calculate_trade_shifts returns a table in which, for every year,
\* eu_us_shift = 35 * (1 - 0.1 * (eu - us) / 100),
\* eu_asia_shift = 60 * (1 - 0.15 * (eu - asia) / 100),
\* eu_global_south_shift = 25 * (1 - 0.15 * (eu - global_south) / 100), and the Asia and
\* Global South CBAM impacts are -0.2 times the CBAM charge of the respective region in
\* the same year.
C23_TradeShiftsLinear ==
    Called("carbon._calculate_trade_shifts") =>
        /\ IsOk(call.out)
        /\ \A i \in DOMAIN YearIndex :
              LET shifts == call.out.value.data
                  eu == call.arg.eu_prices[i]
                  charge == call.arg.cbam_impact.data
              IN  /\ shifts["eu_us_shift"][i] =
                        ClaimedShift(Num(35), Dec(1, 10), eu, call.arg.us_prices[i])
                  /\ shifts["eu_asia_shift"][i] =
                        ClaimedShift(Num(60), Dec(15, 100), eu, call.arg.asian_prices[i])
                  /\ shifts["eu_global_south_shift"][i] =
                        ClaimedShift(Num(25), Dec(15, 100), eu, call.arg.global_south_prices[i])
                  /\ shifts["asia_cbam_impact"][i] =
                        Mul(Neg(Dec(2, 10)), charge["Asia_cbam_charge"][i])
                  /\ shifts["global_south_cbam_impact"][i] =
                        Mul(Neg(Dec(2, 10)), charge["Global South_cbam_charge"][i])

\* the tables a call has returned, as its caller finds them
ResultOf(run) ==
    [costs |-> heap[run.costs], technology_mix |-> heap[run.adoption],
     production |-> heap[run.production], emissions |-> heap[run.emissions]]

\* the tables the same call returns when nothing else runs
AloneResult(run) == Steel_simulate_scenario(InstanceOf(run.model), run.scenario).out.value

\* C24: when two simulate_scenario calls on the same model instance or on two instances
\* are interleaved step by step, each call returns the tables it returns when run alone;
\* the tables one call returns are distinct objects from those of the other, so that a
\* write into one result changes neither the result of the other call nor the model.
C24_RunsDoNotInterfere ==
    /\ \A t \in Runs :
          runs[t].pc = "done" =>
              /\ Cardinality(RunIds(runs[t])) = 4
              /\ \A u \in Runs \ {t} : RunIds(runs[t]) \cap RunIds(runs[u]) = {}
              /\ ~runs[t].written => ResultOf(runs[t]) = AloneResult(runs[t])
    /\ steel_model = SteelIndustryModel(start_year, end_year)
    /\ market_model = MarketTransformationModel(start_year, end_year)

\* two calls on the same instance with different scenarios have taken their steps in
\* turn, the caller has written into the result of the first, and the second has
\* returned what it returns alone
C24_Witness ==
    /\ runs[1].pc = "done" /\ runs[2].pc = "done"
    /\ runs[1].model = "steel_model" /\ runs[2].model = "steel_model"
    /\ runs[1].scenario # runs[2].scenario
    /\ end_year > start_year
    /\ runs[1].costs = 1 /\ runs[2].costs = 2
    /\ runs[1].adoption = 3 /\ runs[2].adoption = 4
    /\ runs[1].production = 5 /\ runs[2].production = 6
    /\ runs[1].emissions = 7 /\ runs[2].emissions = 8
    /\ runs[1].written /\ ~runs[2].written
    /\ ResultOf(runs[1]) # AloneResult(runs[1])
    /\ ResultOf(runs[2]) = AloneResult(runs[2])

\* the top-level keys run_simulation and the dashboard callback read from the bundle of
\* the market model, and the columns calculate_regional_metrics reads from its
\* market_value and market_adoption tables
ConsumerKeys == {"market_adoption", "market_value", "regional_evolution", "steel_industry"}

ConsumerRegions == {"Europe", "North America", "Asia", "Other"}

\* C25: every key a consumer reads from the result bundle of the market model is a key
\* the model produces: MarketTransformationModel.simulate_scenario returns a bundle that
\* holds each top-level key read by run_simulation and by the dashboard callback
\* ('regional_evolution' included), and its market_value and market_adoption tables hold
\* a column for each of the regions Europe, North America, Asia and Other that
\* calculate_regional_metrics reads.
C25_ConsumersFindTheirKeys ==
    /\ Called("market.simulate_scenario") =>
          /\ IsOk(call.out)
          /\ ConsumerKeys \subseteq DOMAIN call.out.value
          /\ ConsumerRegions \subseteq Range(call.out.value.market_value.columns)
          /\ ConsumerRegions \subseteq Range(call.out.value.market_adoption.columns)
    /\ Called("market._calculate_market_adoption") =>
          ConsumerRegions \subseteq Range(call.out.value.columns)

\* the total cost is positive in every year from the second to the i-th
PositiveCostBy(op, i) == \A j \in 2..i : CostSum(op, call.out.value.costs, j) > 0

\* the rounding that k years of the recurrence can add up to: every year rounds a
\* quotient and two products for each of the three technologies to the grid
Rounding(k) == 10 * k

\* C26: in the steel and the cement projector, with three technologies, an initial mix
\* that sums to 1 and a positive total cost, the sum of the three adoption shares in the
\* k-th year after the start is 2 - (1 - r)^k for r = technology_adoption_rate (to the
\* rounding of the arithmetic); hence for 0 < r < 1 the sum strictly increases every year
\* and exceeds 1 from the second year on, and the sum of the production columns of the
\* technologies exceeds the total output of the industry in every year after the first.
C26_ShareSumClosedForm ==
    \A op \in IndustryOps :
        Called(op) =>
            LET r == call.arg.technology_adoption_rate
                mix == call.out.value.technology_mix
                production == call.out.value.production
            IN  \A i \in DOMAIN YearIndex :
                    PositiveCostBy(op, i) =>
                        /\ Abs(TechSum(op, mix, i) - Sub(Num(2), Pow(Sub(One, r), i - 1)))
                              <= Rounding(i - 1)
                        /\ (0 < r /\ r < One /\ i >= 2) =>
                              /\ TechSum(op, mix, i) > TechSum(op, mix, i - 1)
                              /\ TechSum(op, mix, i) > One
                              /\ TechSum(op, production, i) > ClaimedTotalProduction(op, i - 1)

\* cement at the rate 0.5: the shares add up to 1, then to 1.5 and to 1.75, and the
\* production of the second year to more than 4200 * 1.015 = 4263
C26_Witness ==
    /\ Called("cement.simulate_scenario")
    /\ call.arg.technology_adoption_rate = Dec(50, 100)
    /\ end_year >= start_year + 2
    /\ PositiveCostBy("cement.simulate_scenario", 3)
    /\ TechSum("cement.simulate_scenario", call.out.value.technology_mix, 1) = One
    /\ Abs(TechSum("cement.simulate_scenario", call.out.value.technology_mix, 2) - Dec(150, 100)) <= 10
    /\ Abs(TechSum("cement.simulate_scenario", call.out.value.technology_mix, 3) - Dec(175, 100)) <= 20
    /\ TechSum("cement.simulate_scenario", call.out.value.production, 2) > Num(6000)

\* the sum of the two drivers of a segment in the i-th year
CombinedDriver(segment, i) ==
    Add(Mul(market_model.customer_segments[segment].regulatory_sensitivity,
            Pow(Add(One, call.arg.regulatory_pressure_growth), YearIndex[i] - start_year)),
        call.arg.customer_adoption_rate)

\* C27: full adoption is absorbing: for every MarketScenario, whatever the sign or size
\* of customer_adoption_rate and regulatory_pressure_growth, and every customer segment,
\* once adoption(y) is 1 it is 1 in every later year; and whenever the combined driver
\* regulatory_sensitivity * (1 + regulatory_pressure_growth)^(y - start)
\* + customer_adoption_rate is at least 1 in a year y after the first and
\* adoption(y-1) <= 1, adoption(y) is 1.
C27_FullAdoptionAbsorbing ==
    Called("market._calculate_market_adoption") =>
        \A segment \in Range(SegmentNames) : \A i \in 2..Len(YearIndex) :
            /\ AdoptionOf(segment)[i - 1] = One =>
                  \A j \in i..Len(YearIndex) : AdoptionOf(segment)[j] = One
            /\ (CombinedDriver(segment, i) >= One /\ AdoptionOf(segment)[i - 1] <= One) =>
                  AdoptionOf(segment)[i] = One

\* the regulatory pressure changes its sign every year: the driver of the public segment
\* is 0.9 * (-2) + 3 = 1.2 in the second year, which lifts the adoption from 0.05 to 1,
\* and 0.9 * (-8) + 3 = -4.2 in the fourth, which leaves it at 1
C27_Witness ==
    /\ Called("market._calculate_market_adoption")
    /\ call.arg.customer_adoption_rate = Num(3)
    /\ call.arg.regulatory_pressure_growth = Neg(Num(3))
    /\ end_year >= start_year + 3
    /\ CombinedDriver("Public Infrastructure", 2) = Dec(12, 10)
    /\ CombinedDriver("Public Infrastructure", 4) = Neg(Dec(42, 10))
    /\ AdoptionOf("Public Infrastructure")[1] = Dec(5, 100)
    /\ AdoptionOf("Public Infrastructure")[2] = One
    /\ AdoptionOf("Public Infrastructure")[3] = One
    /\ AdoptionOf("Public Infrastructure")[4] = One

\* a value is the split-form dictionary of a table: a dict with the keys index, columns
\* and data, the data a list of rows with the values of the table
IsSplitFormOf(x, df) ==
    /\ x.type = "dict"
    /\ DOMAIN x.items = {"index", "columns", "data"}
    /\ x.items.index = df.index
    /\ x.items.columns = df.columns
    /\ Len(x.items.data) = Len(df.index)
    /\ \A i \in DOMAIN df.index : \A k \in DOMAIN df.columns :
          x.items.data[i][k] = df.data[df.columns[k]][i]

\* C28: save_results leaves every top-level table entry of the results mapping it
\* receives unchanged, and in every top-level entry that is a nested mapping
\* (steel_industry, cement_industry) it replaces, in the caller's object, each table by
\* its split-form dictionary; after the call results['steel_industry']['emissions'] is a
\* dictionary with 'columns' and 'data' whose last data row holds the values of the
\* final year, and no table.
C28_SaveReplacesNestedTables ==
    Called("save_results") =>
        LET before == call.arg
            after == call.out.value.results
        IN  /\ DOMAIN after = DOMAIN before
            /\ \A key \in DOMAIN before :
                  IF before[key].type = "DataFrame" THEN after[key] = before[key]
                  ELSE /\ after[key].type = "dict"
                       /\ DOMAIN after[key].items = DOMAIN before[key].items
                       /\ \A subkey \in DOMAIN before[key].items :
                             IF before[key].items[subkey].type = "DataFrame"
                             THEN IsSplitFormOf(after[key].items[subkey],
                                                before[key].items[subkey].frame)
                             ELSE after[key].items[subkey] = before[key].items[subkey]
            /\ {"steel_industry", "cement_industry"} \subseteq DOMAIN after
            /\ LET emissions == after.steel_industry.items.emissions
               IN  /\ emissions.type = "dict"
                   /\ {"columns", "data"} \subseteq DOMAIN emissions.items
                   /\ emissions.items.columns = <<"BF-BOF", "EAF", "H2-DRI", "total">>
                   /\ Len(emissions.items.data) = Len(YearIndex)
                   /\ emissions.items.index[Len(YearIndex)] = end_year

\* the results of the baseline over several years, saved for the first time: the
\* emissions of steel were a table and are a dictionary whose last row ends with the
\* total of the final year, while market_value is the table it was
C28_Witness ==
    /\ Called("save_results")
    /\ end_year > start_year
    /\ call.arg.steel_industry.items.emissions.type = "DataFrame"
    /\ call.arg.market_value.type = "DataFrame"
    /\ call.out.value.results.market_value = call.arg.market_value
    /\ LET table == call.arg.steel_industry.items.emissions.frame
           emissions == call.out.value.results.steel_industry.items.emissions
       IN  /\ emissions.type = "dict"
           /\ emissions.items.data[Len(YearIndex)][4] = table.data["total"][Len(YearIndex)]
           /\ emissions.items.data[Len(YearIndex)][4] > emissions.items.data[Len(YearIndex)][1]
           /\ emissions.items.data[1][1] = Num(2394)
           /\ emissions.items.data[1] # emissions.items.data[Len(YearIndex)]

\* two scenarios hold the same fields and agree on all of them but the given ones
AgreeExcept(a, b, fields) ==
    /\ DOMAIN a = DOMAIN b
    /\ \A k \in DOMAIN a \ fields : a[k] = b[k]

\* the fields of a MarketScenario that steer the market's own tables only
MarketOnlyFields ==
    {"customer_adoption_rate", "green_premium_start", "green_premium_growth",
     "regulatory_pressure_growth"}

\* C29: scenario fields that no recurrence reads have no effect on any output: two
\* SteelScenarios that differ only in name or scrap_availability_growth yield identical
\* costs, technology_mix, production and emissions tables, two CementScenarios that
\* differ only in name or clinker_substitution_rate yield identical tables, and changing
\* customer_adoption_rate, the green premium parameters or regulatory_pressure_growth
\* of a MarketScenario changes no value of the steel_industry and cement_industry
\* tables.
C29_UnusedFieldsHaveNoEffect ==
    [][/\ (/\ call.op = "steel.simulate_scenario"
           /\ call'.op = "steel.simulate_scenario"
           /\ AgreeExcept(call.arg, call'.arg, {"name", "scrap_availability_growth"}))
          => call'.out = call.out
       /\ (/\ call.op = "cement.simulate_scenario"
           /\ call'.op = "cement.simulate_scenario"
           /\ AgreeExcept(call.arg, call'.arg, {"name", "clinker_substitution_rate"}))
          => call'.out = call.out
       /\ (/\ call.op = "market._run_simulations"
           /\ call'.op = "market._run_simulations"
           /\ AgreeExcept(call.arg, call'.arg, MarketOnlyFields))
          => /\ call'.out.value.steel_industry = call.out.value.steel_industry
             /\ call'.out.value.cement_industry = call.out.value.cement_industry]_vars

\* a steel scenario with another name and another growth of the scrap supply than the
\* scenario derived from the baseline, over several years: the four tables are those
\* of the baseline
C29_Witness ==
    /\ Called("steel.simulate_scenario")
    /\ end_year > start_year
    /\ call.arg.name = "Other"
    /\ call.arg.scrap_availability_growth = Dec(50, 100)
    /\ AgreeExcept(call.arg, SteelScenarioOf(BaselineConfig),
                   {"name", "scrap_availability_growth"})
    /\ call.out = Steel_simulate_scenario(steel_model, SteelScenarioOf(BaselineConfig)).out
    /\ DOMAIN call.out.value = {"costs", "technology_mix", "production", "emissions"}
    /\ call.out.value.emissions.data["total"][Len(YearIndex)] > 0

\* a column of market_evolution never falls (dir = 1) or never rises (dir = -1)
Monotone(col, dir) ==
    \A i \in DOMAIN col : i > 1 => dir * (col[i] - col[i - 1]) >= 0

\* the bounds of the three columns of every region in the table a call returned
EvolutionBounded(c) ==
    LET table == c.out.value
        years == c.arg.years
    IN  /\ table.index = years
        /\ \A k \in DOMAIN Regions :
              LET maturity == table.data[Regions[k] \o "_maturity"]
                  pressure == table.data[Regions[k] \o "_pressure"]
                  sensitivity == table.data[Regions[k] \o "_sensitivity"]
              IN  /\ \A i \in DOMAIN years :
                        /\ 0 < maturity[i] /\ maturity[i] <= One
                        /\ 0 < pressure[i] /\ pressure[i] <= One
                        /\ Dec(5, 10) <= sensitivity[i] /\ sensitivity[i] < One
                        /\ \A j \in DOMAIN years :
                              /\ (j > i /\ maturity[i] = One) => maturity[j] = One
                              /\ (j > i /\ pressure[i] = One) => pressure[j] = One
                              /\ (j > i /\ sensitivity[i] = Dec(5, 10))
                                     => sensitivity[j] = Dec(5, 10)
                  /\ Monotone(maturity, 1)
                  /\ Monotone(pressure, 1)
                  /\ Monotone(sensitivity, -1)

\* C30: in the market_evolution table of the carbon model, for every region and every
\* year, maturity and regulatory pressure lie in (0, 1] and never fall from year to year
\* (once capped at 1.0 they stay at 1.0), and price sensitivity lies in [0.5, 1) and
\* never rises from year to year; the values do not depend on any scenario field: the
\* table computed for one scenario after another, over the same years, is the same.
C30_MarketEvolutionBounded ==
    [][/\ call'.op = "carbon._calculate_market_evolution" => EvolutionBounded(call')
       /\ (/\ call.op = "carbon._calculate_market_evolution"
           /\ call'.op = "carbon._calculate_market_evolution"
           /\ call'.arg.years = call.arg.years)
          => call'.out = call.out]_vars

\* a range of years long enough for the caps and the floor: the regulatory pressure of
\* the EU starts at 0.9 and ends at the cap, its maturity starts at 0.8 and ends at the
\* cap, its price sensitivity starts at 0.7 and ends at the floor, and the maturity of
\* the Global South has risen and is still below the cap
C30_Witness ==
    /\ Called("carbon._calculate_market_evolution")
    /\ Len(call.arg.years) = MaxHorizon
    /\ call.arg.scenario.eu_ets_base = Num(50)
    /\ LET table == call.out.value
           last == Len(call.arg.years)
       IN  /\ table.data["EU_pressure"][1] = Dec(9, 10)
           /\ table.data["EU_pressure"][last] = One
           /\ table.data["EU_pressure"][last - 1] = One
           /\ table.data["EU_maturity"][1] = Dec(8, 10)
           /\ table.data["EU_maturity"][last] = One
           /\ table.data["EU_sensitivity"][1] = Dec(7, 10)
           /\ table.data["EU_sensitivity"][last] = Dec(5, 10)
           /\ table.data["Global South_maturity"][last] > Dec(2, 10)
           /\ table.data["Global South_maturity"][last] < One

====
